---------------------------- MODULE Spec2Model ----------------------------
(***************************************************************************)
(* Hunts Point Logistics Platform: the response handed to the             *)
(* presentation layer (optimizer result or built-in fallback demo), the   *)
(* demo loader fetchDemo / fetchWithTimeout, the useOptimize hook, calls  *)
(* of getFallbackDemo, the Router's shortest_path, and pairs of optimizer *)
(* runs that differ in budget only.                                       *)
(*                                                                         *)
(* Numbers that are fractions in the source are kept exact:               *)
(*   - pollution levels are in thousandths (0.2 is 200, 1 is 1000);       *)
(*   - utilization_pct is the pair <<numerator, denominator>>.            *)
(* JavaScript arrays are 0-based; the sequences here are 1-based and      *)
(* carry the 0-based ids inside their entries.                            *)
(***************************************************************************)
EXTENDS Integers, Sequences, FiniteSets, TLC

(***************************************************************************)
(* Bounds of the model.                                                    *)
(***************************************************************************)
MaxTrucks == 3
MaxHubs == 2
MaxSlotsUsed == 2
MaxCapacity == 1
MaxBudget == 3
DemoTickMs == 2000
HookTickMs == 250
MaxCalls == 2
MaxClock == 3
MaxFallbackCalls == 3
MaxRows == 3
MaxCols == 3
MaxMounts == 2
MaxDataVersions == 2

(***************************************************************************)
(* Program constants.                                                      *)
(***************************************************************************)
NumSlots == 24
NumZones == 10
DemoTrucks == 24
DemoCapacity == 20
DEBOUNCE_MS == 500
DEMO_TIMEOUT_MS == 8000

VARIABLES
    \* ---- response pipeline (optimizer run, or fallback demo) ----
    phase,        \* "idle" | "solving"
    optNumHubs,   \* num_hubs of the running optimize call
    optBudget,    \* budget of the running optimize call
    optWithOpt,   \* with_optimization of the running optimize call
    optCursor,    \* next truck id to decide (lowest truck id first)
    optAssigned,  \* sequence of accepted assignments, in truck-id order
    optSpent,     \* monetary cost consumed so far
    optUnassigned,\* trucks reported as left without an assignment, in truck-id order
    resp,         \* <<>> or <<r>>: the response handed to the presentation layer
    respSource,   \* "none" | "optimizer" | "fallback": where resp came from
    \* ---- demo loader: fetchDemo / fetchWithTimeout ----
    apiUrlEnv,    \* process.env.NEXT_PUBLIC_API_URL at build time ("" when unset or empty)
    demoPc,       \* "idle" | "fetching" | "readBody" | "readErrBody" | "settled"
    demoUrl,      \* <<>> or <<url>> of the request in progress
    demoTimer,    \* ms left on the abort timer, -1 when no timer is pending
    demoRes,      \* <<>> or <<[ok |-> BOOLEAN]>>: the Response fetch resolved with
    demoBody,     \* <<>> or <<kind>>: the body that arrived
    demoOutcome,  \* "pending" | "resolved" | "rejected": fetchDemo's promise
    demoResult,   \* <<>> or <<[data |-> .., fromApi |-> ..]>>: the DemoResult
    \* ---- useDemoData ----
    loadPc,       \* "mount" | "awaiting" | "setData" | "done": position of load()
    demoData,     \* useState data: <<>> (null) or <<response>>
    demoLoading,  \* useState loading
    demoError,    \* useState error: <<>> (null) or <<message>>
    demoFromApi,  \* useState fromApi
    demoDataOrigin, \* which return of fetchDemo the data state came from: "none" | "api" | "fallback"
    homeShown,    \* [data, fromApi, origin]: the values Home rendered last
    \* ---- useOptimize ----
    hookMounted,  \* "no" | "mounted" | "unmounted"
    params,       \* useState params
    closureParams,\* params captured by updateParams / runNow at the last render
    timers,       \* pending setTimeout timers: {[id, left, next]}
    debounceRef,  \* debounceRef.current: 0 (null) or a timer id
    nextTimerId,  \* id the next setTimeout returns
    requests,     \* POST /optimize requests in flight: {[rid, params]}
    nextRid,      \* number of the next request
    optData,      \* useState data: <<>> (null) or <<result>>
    optLoading,   \* useState loading
    optError,     \* useState error: <<>> (null) or <<message>>
    calls,        \* number of setParams and runNow calls so far
    lastOutcome,  \* outcome of the most recently issued request: "none" | "pending" | "ok" | "failed"
    \* history of the current burst of setParams calls
    sinceSet,     \* ms since the last setParams call (time stops mattering once no timer is pending)
    postsSinceSet,\* POSTs issued since the last setParams call: <<[params, at]>>
    lastNext,     \* <<>> or <<params produced by the last setParams call>>
    burstLen,     \* setParams calls made while the previous call's timer was pending, plus one
    burstClean,   \* no runNow since the last setParams call
    runsSinceSet, \* runNow calls since the last setParams call (since the mount before any)
    expectedParams, \* InitialParams with the updates of every setParams call applied in call order
    failedSinceStart, \* <<>> or <<[message, nth]>>: the latest request that failed since fetchOptimize
                  \* last started one, and how many have failed since then
    \* ---- calls of getFallbackDemo ----
    clock,        \* the wall clock new Date() reads
    fallbackReturns, \* what the calls of getFallbackDemo so far returned, in call order
    \* ---- Router: one shortest_path call ----
    routerPc,     \* "idle" | "searching" | "done"
    gridRows,     \* R of the grid of the call
    gridCols,     \* C of the grid of the call
    routeOrigin,  \* origin cell <<row, col>>
    routeDest,    \* destination cell <<row, col>>
    bfsQueue,     \* the BFS frontier, a FIFO of cells
    bfsParent,    \* visited cells and the cell each was reached from
    routePath,    \* <<>> or the path returned, origin first
    \* ---- Optimizer: two runs that differ in budget only ----
    pairPhase,    \* "idle" | "solving" | "done"
    pairParams,   \* [numHubs, withOpt]: the parameters the two runs share
    pairCursor,   \* next truck id both runs decide
    pairLow,      \* [budget, assigned, spent]: the run with the smaller budget
    pairHigh,     \* [budget, assigned, spent]: the run with the larger budget
    \* ---- MapView ----
    mvMounted,    \* "no" | "mounted" | "unmounted"
    mvToken,      \* NEXT_PUBLIC_MAPBOX_TOKEN is set
    mvRuns,       \* the runs of the init effect so far, each [cancelled, import, map, removes]
    mapRef,       \* mapRef.current: 0 (null) or the run whose map it holds
    mapReady,     \* useState mapReady
    mvData,       \* the data prop: <<>> (null) or <<version>>
    layerMode,    \* useState layerMode
    mvEffectDue,  \* a dependency of the layer effect changed since its last run
    mvSources,    \* sources of the map in mapRef: {[id, data]}
    mvLayers,     \* layers of the map in mapRef: {[id, source, paint]}
    mvErrors,     \* what mapbox-gl refused or threw during the layer effect's runs
    mvEffectRuns  \* runs of the layer effect that got past its guard, counted up to 2

pipeVars == <<phase, optNumHubs, optBudget, optWithOpt, optCursor, optAssigned, optSpent,
              optUnassigned, resp, respSource>>

demoVars == <<apiUrlEnv, demoPc, demoUrl, demoTimer, demoRes, demoBody, demoOutcome,
              demoResult>>

useDemoVars == <<loadPc, demoData, demoLoading, demoError, demoFromApi, demoDataOrigin,
                 homeShown>>

hookVars == <<hookMounted, params, closureParams, timers, debounceRef, nextTimerId,
              requests, nextRid, optData, optLoading, optError, calls, lastOutcome>>

burstVars == <<sinceSet, postsSinceSet, lastNext, burstLen, burstClean, runsSinceSet,
              expectedParams, failedSinceStart>>

fallbackVars == <<clock, fallbackReturns>>

routerVars == <<routerPc, gridRows, gridCols, routeOrigin, routeDest, bfsQueue, bfsParent,
                routePath>>

pairVars == <<pairPhase, pairParams, pairCursor, pairLow, pairHigh>>

mapVars == <<mvMounted, mvToken, mvRuns, mapRef, mapReady, mvData, layerMode, mvEffectDue,
             mvSources, mvLayers, mvErrors, mvEffectRuns>>

vars == <<pipeVars, demoVars, useDemoVars, hookVars, burstVars, fallbackVars, routerVars,
          pairVars, mapVars>>

notPipe == <<demoVars, useDemoVars, hookVars, burstVars, fallbackVars, routerVars, pairVars, mapVars>>
notDemo == <<pipeVars, hookVars, burstVars, fallbackVars, routerVars, pairVars, mapVars>>
notHook == <<pipeVars, demoVars, useDemoVars, fallbackVars, routerVars, pairVars, mapVars>>
notFallback == <<pipeVars, demoVars, useDemoVars, hookVars, burstVars, routerVars, pairVars, mapVars>>
notRouter == <<pipeVars, demoVars, useDemoVars, hookVars, burstVars, fallbackVars, pairVars, mapVars>>
notPair == <<pipeVars, demoVars, useDemoVars, hookVars, burstVars, fallbackVars, routerVars, mapVars>>
notMap == <<pipeVars, demoVars, useDemoVars, hookVars, burstVars, fallbackVars, routerVars,
            pairVars>>

(***************************************************************************)
(* Helpers.                                                                *)
(***************************************************************************)
Min(a, b) == IF a < b THEN a ELSE b
Max(a, b) == IF a > b THEN a ELSE b

\* truck_assignments.filter((a) => a.slot_id === s).length
CountInSlot(assignments, s) ==
    Cardinality({i \in DOMAIN assignments : assignments[i].slot_id = s})

\* Number of assignments at hub h
CountAtHub(assignments, h) ==
    Cardinality({i \in DOMAIN assignments : assignments[i].hub_id = h})

\* JavaScript a || b on numbers: a when a is truthy (non-zero), else b
JsOr(a, b) == IF a # 0 THEN a ELSE b

\* Math.round of the non-negative fraction num/den: floor(num/den + 1/2)
MathRound(num, den) == (2 * num + den) \div (2 * den)

\* 1-based position of the first index in hits (a non-empty set of positions)
FirstOf(hits) == CHOOSE i \in hits : \A j \in hits : i <= j

\* list.find((a) => a.truck_id === truckId): the first such entry, as <<>> or <<entry>>
FindByTruck(list, truckId) ==
    LET hits == {i \in DOMAIN list : list[i].truck_id = truckId}
    IN  IF hits = {} THEN <<>> ELSE <<list[FirstOf(hits)]>>

\* list.findIndex((a) => a.truck_id === truckId): 0-based index of the first, or -1
FindIndexByTruck(list, truckId) ==
    LET hits == {i \in DOMAIN list : list[i].truck_id = truckId}
    IN  IF hits = {} THEN -1 ELSE FirstOf(hits) - 1

\* list.find((z) => z.zone_id === zoneId)
FindByZone(list, zoneId) ==
    LET hits == {i \in DOMAIN list : list[i].zone_id = zoneId}
    IN  IF hits = {} THEN <<>> ELSE <<list[FirstOf(hits)]>>

(***************************************************************************)
(* ArtificialMap.zoneColor (PlatformNav.tsx 75-84): <<r, g, b>>.          *)
(***************************************************************************)
zoneColor(zone_meta, zoneId) ==
    LET meta == FindByZone(zone_meta, zoneId)
    IN  IF meta = <<>> THEN <<200, 220, 200>>
        ELSE IF meta[1].is_green THEN <<180, 220, 180>>
        ELSE LET p == meta[1].pollution
             IN  <<MathRound(200 * 1000 + 55 * p, 1000),
                   MathRound(220 * 1000 - 80 * p, 1000),
                   200>>

(***************************************************************************)
(* getFallbackDemo (useOptimize.ts 192-284), one definition per local.    *)
(***************************************************************************)
GreenZoneIds == {0, 2, 5}

\* Mutants of truckAssignments
truckAssignments_sameHubSlot ==
    [k \in 1..DemoTrucks |-> [truck_id |-> k - 1, hub_id |-> 0, slot_id |-> 0]]

truckAssignments_idFromHub ==
    [k \in 1..DemoTrucks |->
        LET i == k - 1
        IN  [truck_id |-> i % 4, hub_id |-> i % 4, slot_id |-> (i * 5) % 24]]

truckAssignments_stride6 ==
    [k \in 1..DemoTrucks |->
        LET i == k - 1
        IN  [truck_id |-> i, hub_id |-> i % 4, slot_id |-> (i * 6) % 24]]

truckAssignments_slotNoModulo ==
    [k \in 1..DemoTrucks |->
        LET i == k - 1
        IN  [truck_id |-> i, hub_id |-> i % 4, slot_id |-> i * 5]]

truckAssignments_twentyTrucks ==
    [k \in 1..20 |->
        LET i == k - 1
        IN  [truck_id |-> i, hub_id |-> i % 4, slot_id |-> (i * 5) % 24]]

truckAssignments ==
    [k \in 1..DemoTrucks |->
        LET i == k - 1
        IN  [truck_id |-> i, hub_id |-> i % 4, slot_id |-> (i * 5) % 24]]

drivers ==
    <<"Mike Smith", "Carlos Garcia", "James Chen", "Maria Rodriguez", "David Lee">>

origins ==
    <<"Bronx Produce Co.", "Hunts Point Terminal", "Fresh Direct Depot",
      "Food Center Drive", "Southern Blvd Warehouse">>

\* const hubs (the name is taken by the response field `hubs`)
hubNames ==
    <<"Hub 1 - Hunts Point Charging", "Hub 2 - Food Center", "Hub 3 - Oak Point",
      "Hub 4 - Lafayette">>

statuses == <<"scheduled", "en_route", "at_hub", "completed">>

\* String(n).padStart(2, '0') for a non-negative n: its decimal digits, at least two
RECURSIVE Digits(_)
Digits(n) == IF n < 10 THEN <<n>> ELSE Append(Digits(n \div 10), n % 10)

PadStart2(n) == IF Len(Digits(n)) < 2 THEN <<0>> \o Digits(n) ELSE Digits(n)

\* `${String(slot).padStart(2, '0')}:00`
ClockText(slot) == [hh |-> PadStart2(slot), mm |-> <<0, 0>>]

\* Mutant of deliveries: scheduled_slot is the index, not the assignment's slot
deliveries_slotFromIndex ==
    [k \in DOMAIN truckAssignments |->
        LET i == k - 1
            a == truckAssignments[k]
        IN  [delivery_id |-> <<"D-", 1000 + i>>,
             truck_id |-> a.truck_id,
             driver_id |-> a.truck_id,
             driver_name |-> drivers[(i % Len(drivers)) + 1],
             from_zone_id |-> i % 5,
             from_address |-> origins[(i % Len(origins)) + 1],
             to_hub_id |-> a.hub_id,
             to_address |-> hubNames[a.hub_id + 1],
             scheduled_slot |-> i,
             scheduled_time |-> ClockText(a.slot_id),
             status |-> statuses[(i % Len(statuses)) + 1]]]

deliveries ==
    [k \in DOMAIN truckAssignments |->
        LET i == k - 1
            a == truckAssignments[k]
        IN  [delivery_id |-> <<"D-", 1000 + i>>,
             truck_id |-> a.truck_id,
             driver_id |-> a.truck_id,
             driver_name |-> drivers[(i % Len(drivers)) + 1],
             from_zone_id |-> i % 5,
             from_address |-> origins[(i % Len(origins)) + 1],
             to_hub_id |-> a.hub_id,
             to_address |-> hubNames[a.hub_id + 1],
             scheduled_slot |-> a.slot_id,
             scheduled_time |-> ClockText(a.slot_id),
             status |-> statuses[(i % Len(statuses)) + 1]]]

hubUsage ==
    LET counts == <<12, 8, 10, 6>>
    IN  [k \in 1..4 |->
            [hub_id |-> k - 1,
             assigned |-> counts[k],
             capacity |-> DemoCapacity,
             utilization_pct |-> <<100 * counts[k], 20>>]]

congestionPerTime ==
    [k \in 1..NumSlots |->
        LET s == k - 1
        IN  [slot_id |-> s,
             hour |-> s,
             trucks |-> JsOr(CountInSlot(truckAssignments, s),
                             IF s % 4 = 0 THEN 2 ELSE 0)]]

\* Mutant of pollutionPerZone: 0.2 + 0.6 * z, the division by 10 dropped
pollutionPerZone_noDivision ==
    [k \in 1..NumZones |->
        LET z == k - 1
        IN  [zone_id |-> z,
             pollution_level |-> 200 + 600 * z,
             truck_count |-> IF z < 5 THEN 3 ELSE 2]]

pollutionPerZone ==
    [k \in 1..NumZones |->
        LET z == k - 1
        IN  [zone_id |-> z,
             pollution_level |-> 200 + (600 * z) \div 10,
             truck_count |-> IF z < 5 THEN 3 ELSE 2]]

features ==
    [k \in 1..NumZones |->
        LET z == k - 1
        IN  [zone_id |-> z, pollution |-> 500, congestion |-> 2,
             is_green |-> z \in GreenZoneIds]]

hubList ==
    <<[hub_id |-> 0, zone_id |-> 0, usage |-> 12],
      [hub_id |-> 1, zone_id |-> 1, usage |-> 8],
      [hub_id |-> 2, zone_id |-> 2, usage |-> 10],
      [hub_id |-> 3, zone_id |-> 3, usage |-> 6]>>

zoneMeta ==
    [k \in 1..NumZones |->
        [zone_id |-> pollutionPerZone[k].zone_id,
         pollution |-> pollutionPerZone[k].pollution_level,
         is_green |-> pollutionPerZone[k].zone_id \in GreenZoneIds]]

\* The tip template always ends "Off-peak - good for energy saving."
driverTips ==
    [k \in DOMAIN truckAssignments |->
        LET a == truckAssignments[k]
        IN  [truck_id |-> a.truck_id,
             hub_id |-> a.hub_id,
             slot_id |-> a.slot_id,
             tip |-> [charge_at |-> hubNames[a.hub_id + 1],
                      time |-> ClockText(a.slot_id),
                      off_peak |-> TRUE]]]

quietSlotsByZone ==
    [k \in 1..NumZones |-> [zone_id |-> k - 1, suggested_slots |-> <<0, 1, 2, 3, 4>>]]

\* Normalized coordinates are fractions <<numerator, denominator>>
Point(xn, xd, yn, yd) == [x |-> <<xn, xd>>, y |-> <<yn, yd>>]

\* zoneCells: every zone has the one cell { i: 0, j: 0, x: 0.5, y: 0.5 }
zoneCells ==
    [z \in 0..(NumZones - 1) |-> <<[i |-> 0, j |-> 0, x |-> <<1, 2>>, y |-> <<1, 2>>]>>]

\* artificialMap.hubs: hub i at row 2 + i, col 2 + i, x = y = (2.5 + i) / 12
mapHubs ==
    [k \in DOMAIN hubList |->
        LET i == k - 1
        IN  [hub_id |-> hubList[k].hub_id, row |-> 2 + i, col |-> 2 + i,
             x |-> <<25 + 10 * i, 120>>, y |-> <<25 + 10 * i, 120>>]]

\* artificialMap.routes: the same three points for every assignment
routes ==
    [k \in DOMAIN truckAssignments |->
        <<Point(2, 10, 2, 10), Point(5, 10, 5, 10), Point(8, 10, 8, 10)>>]

artificialMap ==
    [rows |-> 12, cols |-> 12, zone_cells |-> zoneCells, zone_meta |-> zoneMeta,
     hubs |-> mapHubs, routes |-> routes]

getFallbackDemo ==
    [truck_assignments |-> truckAssignments,
     hub_usage |-> hubUsage,
     congestion_per_time |-> congestionPerTime,
     pollution_per_zone |-> pollutionPerZone,
     zone_features |-> features,
     hubs |-> hubList,
     zone_meta |-> zoneMeta,
     quiet_slots_by_zone |-> quietSlotsByZone,
     status |-> "Optimal",
     n_assigned |-> 24,
     n_trucks_assigned |-> 24,
     objective_value |-> <<-10000>>,
     driver_tips |-> driverTips,
     deliveries |-> deliveries,
     artificial_map |-> artificialMap]

\* new Date().toISOString()
ToISOString(now) == [iso |-> now]

\* Mutant of getFallbackDemoAt: the status follows the clock
getFallbackDemoAt_statusByClock(now) ==
    [f \in DOMAIN getFallbackDemo \cup {"last_updated"} |->
        IF f = "last_updated" THEN ToISOString(now)
        ELSE IF f = "status" THEN (IF now % 2 = 0 THEN "Optimal" ELSE "Feasible")
        ELSE getFallbackDemo[f]]

\* The value a call of getFallbackDemo returns when the clock reads `now`: the
\* fields above and last_updated
getFallbackDemoAt(now) ==
    [f \in DOMAIN getFallbackDemo \cup {"last_updated"} |->
        IF f = "last_updated" THEN ToISOString(now) ELSE getFallbackDemo[f]]

FallbackQuiet ==
    /\ clock = 0
    /\ fallbackReturns = <<>>

\* Time passes
ClockTick ==
    /\ clock < MaxClock
    /\ clock' = clock + 1
    /\ UNCHANGED <<fallbackReturns, notFallback>>

\* Some caller calls getFallbackDemo()
CallGetFallbackDemo ==
    /\ Len(fallbackReturns) < MaxFallbackCalls
    /\ fallbackReturns' = Append(fallbackReturns, getFallbackDemoAt(clock))
    /\ UNCHANGED <<clock, notFallback>>


(***************************************************************************)
(* Router (spec 4.2): shortest_path by breadth-first search over the      *)
(* 4-connected grid, neighbours visited in the fixed order up, down,      *)
(* left, right.  The grid has no obstacles.                                *)
(***************************************************************************)
Abs(x) == IF x < 0 THEN -x ELSE x

InGrid(cell, rows, cols) ==
    /\ cell[1] \in 0..(rows - 1)
    /\ cell[2] \in 0..(cols - 1)

\* The cells of `candidates` that lie in the grid, order kept
RECURSIVE KeepInGrid(_, _, _)
KeepInGrid(candidates, rows, cols) ==
    IF candidates = <<>> THEN <<>>
    ELSE IF InGrid(Head(candidates), rows, cols)
         THEN <<Head(candidates)>> \o KeepInGrid(Tail(candidates), rows, cols)
         ELSE KeepInGrid(Tail(candidates), rows, cols)

\* Mutant of Neighbours: diagonal moves are allowed too
Neighbours_withDiagonals(cell, rows, cols) ==
    KeepInGrid(<<<<cell[1] - 1, cell[2]>>, <<cell[1] + 1, cell[2]>>,
                 <<cell[1], cell[2] - 1>>, <<cell[1], cell[2] + 1>>,
                 <<cell[1] - 1, cell[2] - 1>>, <<cell[1] + 1, cell[2] + 1>>,
                 <<cell[1] - 1, cell[2] + 1>>, <<cell[1] + 1, cell[2] - 1>>>>,
               rows, cols)

\* 4-connected adjacency in visitation order: up, down, left, right
Neighbours(cell, rows, cols) ==
    KeepInGrid(<<<<cell[1] - 1, cell[2]>>, <<cell[1] + 1, cell[2]>>,
                 <<cell[1], cell[2] - 1>>, <<cell[1], cell[2] + 1>>>>,
               rows, cols)

\* Enqueue the neighbours not visited yet and record where each was reached from
RECURSIVE Discover(_, _, _)
Discover(nbrs, from, search) ==
    IF nbrs = <<>> THEN search
    ELSE LET n == Head(nbrs)
         IN  IF n \in DOMAIN search.parent
             THEN Discover(Tail(nbrs), from, search)
             ELSE Discover(Tail(nbrs), from,
                           [queue |-> Append(search.queue, n),
                            parent |-> [c \in DOMAIN search.parent \cup {n} |->
                                           IF c = n THEN from ELSE search.parent[c]]])

\* Walk the parent links back from `cell` to the origin (its own parent)
RECURSIVE PathTo(_, _)
PathTo(cell, parent) ==
    IF parent[cell] = cell THEN <<cell>> ELSE Append(PathTo(parent[cell], parent), cell)

RouterQuiet ==
    /\ routerPc = "idle"
    /\ gridRows = 1
    /\ gridCols = 1
    /\ routeOrigin = <<0, 0>>
    /\ routeDest = <<0, 0>>
    /\ bfsQueue = <<>>
    /\ bfsParent = <<>>
    /\ routePath = <<>>

\* shortest_path(origin, destination) is called on a rows x cols grid
ShortestPathStart(rows, cols, origin, destination) ==
    /\ routerPc \in {"idle", "done"}
    /\ InGrid(origin, rows, cols)
    /\ InGrid(destination, rows, cols)
    /\ routerPc' = "searching"
    /\ gridRows' = rows
    /\ gridCols' = cols
    /\ routeOrigin' = origin
    /\ routeDest' = destination
    /\ bfsQueue' = <<origin>>
    /\ bfsParent' = [c \in {origin} |-> origin]
    /\ routePath' = <<>>
    /\ UNCHANGED notRouter

\* One BFS iteration: dequeue a cell; return the path if it is the destination,
\* otherwise discover its neighbours
BfsStep ==
    /\ routerPc = "searching"
    /\ bfsQueue # <<>>
    /\ LET cell == Head(bfsQueue)
       IN  IF cell = routeDest
           THEN /\ routePath' = PathTo(cell, bfsParent)
                /\ routerPc' = "done"
                /\ UNCHANGED <<bfsQueue, bfsParent>>
           ELSE LET found == Discover(Neighbours(cell, gridRows, gridCols), cell,
                                      [queue |-> Tail(bfsQueue), parent |-> bfsParent])
                IN  /\ bfsQueue' = found.queue
                    /\ bfsParent' = found.parent
                    /\ UNCHANGED <<routerPc, routePath>>
    /\ UNCHANGED <<gridRows, gridCols, routeOrigin, routeDest, notRouter>>

(***************************************************************************)
(* The optimizer and the estimator / summary generator that answer        *)
(* POST /optimize.  The backend is modelled from the specification        *)
(* (sections 4.4, 4.5, 4.6): trucks are decided lowest id first, an        *)
(* assignment is accepted only if the hub has room in the slot and the    *)
(* fee fits the remaining budget, a truck is left unassigned only when    *)
(* no (hub, slot) is feasible for it.  The solver's choice among feasible *)
(* pairs is left open (any cost weighting is covered); the greedy mode    *)
(* takes the earliest available slot of the hub it picks.                 *)
(***************************************************************************)
AssignmentFee == 1

OptHubs == 0..(optNumHubs - 1)
OptSlots == 0..(MaxSlotsUsed - 1)

HubZone(h) == h % NumZones

SlotLoad(assigned, h, s) ==
    Cardinality({i \in DOMAIN assigned :
                    assigned[i].hub_id = h /\ assigned[i].slot_id = s})

\* Mutant of Feasible: on the largest budget half of it is held back as a reserve
Feasible_reserveOnLargeBudget(assigned, spent, budget, h, s) ==
    /\ SlotLoad(assigned, h, s) < MaxCapacity
    /\ spent + AssignmentFee <= (IF budget >= MaxBudget THEN budget \div 2 ELSE budget)

Feasible(assigned, spent, budget, h, s) ==
    /\ SlotLoad(assigned, h, s) < MaxCapacity
    /\ spent + AssignmentFee <= budget

EarliestAvailableSlot(assigned, h) ==
    LET free == {s \in OptSlots : SlotLoad(assigned, h, s) < MaxCapacity}
    IN  CHOOSE s \in free : \A t \in free : s <= t

\* Estimator 4.5: pollution from truck presence, dampened in green zones, clamped to [0,1]
Clamp01(p) == Max(0, Min(1000, p))

ZonePollution(count, green) ==
    Clamp01(IF green THEN (400 * count) \div 2 ELSE 400 * count)

\* Trucks arriving in slot s at hubs located in zone z
ZoneSlotTrucks(assignments, hubs, z, s) ==
    Cardinality({i \in DOMAIN assignments :
                    /\ assignments[i].slot_id = s
                    /\ \E k \in DOMAIN hubs :
                           /\ hubs[k].hub_id = assignments[i].hub_id
                           /\ hubs[k].zone_id = z})

\* Summary 4.6: slots ranked ascending by truck count, ties by ascending slot id
SlotBefore(assignments, hubs, z, s, t) ==
    LET cs == ZoneSlotTrucks(assignments, hubs, z, s)
        ct == ZoneSlotTrucks(assignments, hubs, z, t)
    IN  cs < ct \/ (cs = ct /\ s < t)

\* The first n slots of that ranking.  Slots without a truck for the zone (count 0)
\* come first in slot order, then the busy slots by count and slot id.
QuietSlots(assignments, hubs, z, n) ==
    LET slots == 0..(NumSlots - 1)
        busy == {s \in slots : ZoneSlotTrucks(assignments, hubs, z, s) > 0}
        free == slots \ busy
        rank(s) ==
            IF s \in free
            THEN Cardinality({t \in free : t < s})
            ELSE Cardinality(free)
                 + Cardinality({t \in busy : SlotBefore(assignments, hubs, z, t, s)})
    IN  [k \in 1..n |-> CHOOSE s \in slots : rank(s) = k - 1]

\* The designated peak slots (spec 3 TimeSlot, 4.4 cost function): the morning and
\* evening rush hours
PeakSlots == {7, 8, 9, 16, 17, 18}

HubName(h) == <<"Hub", h + 1>>

\* Summary 4.6: a tip per assigned truck, naming its hub and whether its slot is off-peak
OptDriverTips(assigned) ==
    [k \in DOMAIN assigned |->
        [truck_id |-> assigned[k].truck_id,
         hub_id |-> assigned[k].hub_id,
         slot_id |-> assigned[k].slot_id,
         tip |-> [charge_at |-> HubName(assigned[k].hub_id),
                  time |-> ClockText(assigned[k].slot_id),
                  off_peak |-> assigned[k].slot_id \notin PeakSlots]]]

\* Spec 6: the synthesized delivery list, one delivery per assignment
OptDeliveries(assigned) ==
    [k \in DOMAIN assigned |->
        [delivery_id |-> <<"D-", 1000 + k - 1>>,
         truck_id |-> assigned[k].truck_id,
         driver_id |-> assigned[k].truck_id,
         to_hub_id |-> assigned[k].hub_id,
         to_address |-> HubName(assigned[k].hub_id),
         scheduled_slot |-> assigned[k].slot_id,
         scheduled_time |-> ClockText(assigned[k].slot_id),
         status |-> "scheduled"]]

\* Result 4.4: the objective value, null when no assignment was possible
ObjectiveValue(assigned) ==
    IF Len(assigned) = 0 THEN <<>> ELSE <<AssignmentFee * Len(assigned)>>

\* Spec 4.1, 4.2: hub h sits at cell (2 + h, 2 + h) of the 12 x 12 grid, truck t
\* starts at cell (t mod 12, 0), and a cell's normalized position is its centre
GridSide == 12
CellCentre(row, col) == Point(2 * col + 1, 2 * GridSide, 2 * row + 1, 2 * GridSide)
OptHubPoint(h) == CellCentre(2 + h, 2 + h)
OptOriginPoint(t) == CellCentre(t % GridSide, 0)

\* Spec 3 Route, by its end points: from the truck's origin to its assigned hub,
\* one route per assignment, in assignment order
OptArtificialMap(assigned, numHubs) ==
    [rows |-> GridSide, cols |-> GridSide,
     hubs |-> [k \in 1..numHubs |->
                  [hub_id |-> k - 1, row |-> 2 + (k - 1), col |-> 2 + (k - 1),
                   x |-> OptHubPoint(k - 1).x, y |-> OptHubPoint(k - 1).y]],
     routes |-> [k \in DOMAIN assigned |->
                    <<OptOriginPoint(assigned[k].truck_id), OptHubPoint(assigned[k].hub_id)>>]]

OptHubList(assigned, numHubs) ==
    [k \in 1..numHubs |->
        [hub_id |-> k - 1, zone_id |-> HubZone(k - 1),
         usage |-> CountAtHub(assigned, k - 1)]]

ZoneTruckCount(assigned, z) ==
    Cardinality({i \in DOMAIN assigned : HubZone(assigned[i].hub_id) = z})

BuildResponse(assigned, numHubs, withOpt) ==
    [truck_assignments |-> assigned,
     hub_usage |->
        [k \in 1..numHubs |->
            LET n == CountAtHub(assigned, k - 1)
            IN  [hub_id |-> k - 1, assigned |-> n, capacity |-> MaxCapacity,
                 utilization_pct |-> <<100 * n, MaxCapacity>>]],
     congestion_per_time |->
        [k \in 1..NumSlots |->
            [slot_id |-> k - 1, hour |-> k - 1,
             trucks |-> CountInSlot(assigned, k - 1)]],
     pollution_per_zone |->
        [k \in 1..NumZones |->
            [zone_id |-> k - 1,
             pollution_level |->
                ZonePollution(ZoneTruckCount(assigned, k - 1), (k - 1) \in GreenZoneIds),
             truck_count |-> ZoneTruckCount(assigned, k - 1)]],
     zone_features |->
        [k \in 1..NumZones |->
            [zone_id |-> k - 1,
             pollution |->
                ZonePollution(ZoneTruckCount(assigned, k - 1), (k - 1) \in GreenZoneIds),
             congestion |-> ZoneTruckCount(assigned, k - 1),
             is_green |-> (k - 1) \in GreenZoneIds]],
     hubs |-> OptHubList(assigned, numHubs),
     zone_meta |->
        [k \in 1..NumZones |->
            [zone_id |-> k - 1,
             pollution |->
                ZonePollution(ZoneTruckCount(assigned, k - 1), (k - 1) \in GreenZoneIds),
             is_green |-> (k - 1) \in GreenZoneIds]],
     quiet_slots_by_zone |->
        [k \in 1..NumZones |->
            [zone_id |-> k - 1,
             suggested_slots |-> QuietSlots(assigned, OptHubList(assigned, numHubs), k - 1, 5)]],
     status |-> IF Len(assigned) < MaxTrucks THEN "infeasible"
                ELSE IF withOpt THEN "optimal" ELSE "feasible",
     n_assigned |-> Len(assigned),
     n_trucks_assigned |-> Len(assigned),
     objective_value |-> ObjectiveValue(assigned),
     driver_tips |-> OptDriverTips(assigned),
     deliveries |-> OptDeliveries(assigned),
     artificial_map |-> OptArtificialMap(assigned, numHubs)]

(***************************************************************************)
(* Two optimizer runs with the same seed, num_trucks, num_hubs,            *)
(* peak_multiplier and with_optimization, and budgets low <= high, decided *)
(* side by side truck by truck.  The seed fixes the solver's ranking of    *)
(* the candidates: whenever the pair the larger-budget run takes is also   *)
(* open to the other run, that run takes the same pair.                    *)
(***************************************************************************)
NoChoice == <<>>

\* What one run may do with the next truck: take a feasible pair (the earliest
\* available slot of the hub in greedy mode), or leave the truck out when no pair
\* is feasible
Allowed(run, numHubs, withOpt, choice) ==
    IF choice = NoChoice
    THEN \A h \in 0..(numHubs - 1), s \in OptSlots :
             ~Feasible(run.assigned, run.spent, run.budget, h, s)
    ELSE /\ Feasible(run.assigned, run.spent, run.budget, choice[1], choice[2])
         /\ (~withOpt) => choice[2] = EarliestAvailableSlot(run.assigned, choice[1])

Decide(run, truck, choice) ==
    IF choice = NoChoice
    THEN run
    ELSE [run EXCEPT
            !.assigned = Append(@, [truck_id |-> truck, hub_id |-> choice[1],
                                    slot_id |-> choice[2]]),
            !.spent = @ + AssignmentFee]

PairQuiet ==
    /\ pairPhase = "idle"
    /\ pairParams = [numHubs |-> 1, withOpt |-> FALSE]
    /\ pairCursor = 0
    /\ pairLow = [budget |-> 0, assigned |-> <<>>, spent |-> 0]
    /\ pairHigh = [budget |-> 0, assigned |-> <<>>, spent |-> 0]

BudgetPairStart(numHubs, withOpt, low, high) ==
    /\ pairPhase \in {"idle", "done"}
    /\ low <= high
    /\ pairPhase' = "solving"
    /\ pairParams' = [numHubs |-> numHubs, withOpt |-> withOpt]
    /\ pairCursor' = 0
    /\ pairLow' = [budget |-> low, assigned |-> <<>>, spent |-> 0]
    /\ pairHigh' = [budget |-> high, assigned |-> <<>>, spent |-> 0]
    /\ UNCHANGED notPair

\* Both runs decide the next truck
BudgetPairDecide(choiceLow, choiceHigh) ==
    /\ pairPhase = "solving"
    /\ pairCursor < MaxTrucks
    /\ Allowed(pairLow, pairParams.numHubs, pairParams.withOpt, choiceLow)
    /\ Allowed(pairHigh, pairParams.numHubs, pairParams.withOpt, choiceHigh)
    /\ Allowed(pairLow, pairParams.numHubs, pairParams.withOpt, choiceHigh)
           => choiceLow = choiceHigh
    /\ pairLow' = Decide(pairLow, pairCursor, choiceLow)
    /\ pairHigh' = Decide(pairHigh, pairCursor, choiceHigh)
    /\ pairCursor' = pairCursor + 1
    /\ UNCHANGED <<pairPhase, pairParams, notPair>>

\* Both runs return their results
BudgetPairReturn ==
    /\ pairPhase = "solving"
    /\ pairCursor = MaxTrucks
    /\ pairPhase' = "done"
    /\ UNCHANGED <<pairParams, pairCursor, pairLow, pairHigh, notPair>>

(***************************************************************************)
(* useOptimize (useOptimize.ts 10-62).  The backend answering              *)
(* POST /optimize is the environment.                                      *)
(***************************************************************************)
InitialParams ==
    [num_trucks |-> 10, num_hubs |-> 2, budget |-> 1000, peak_multiplier |-> 10,
     with_optimization |-> TRUE]

\* The Partial<OptimizeParams> the sliders send
Updates == {[num_trucks |-> 20], [num_trucks |-> 10], [budget |-> 500]}

\* { ...p, ...updates }
Merge(p, updates) ==
    [f \in DOMAIN p |-> IF f \in DOMAIN updates THEN updates[f] ELSE p[f]]

ErrorMessages == {"Failed to fetch", "Internal Server Error"}

\* useState / useRef initial values, before the mount effect
HookQuiet ==
    /\ hookMounted = "no"
    /\ params = InitialParams
    /\ closureParams = InitialParams
    /\ timers = {}
    /\ debounceRef = 0
    /\ nextTimerId = 1
    /\ requests = {}
    /\ nextRid = 1
    /\ optData = <<>>
    /\ optLoading = FALSE
    /\ optError = <<>>
    /\ calls = 0
    /\ lastOutcome = "none"
    /\ sinceSet = 0
    /\ postsSinceSet = <<>>
    /\ lastNext = <<>>
    /\ burstLen = 0
    /\ burstClean = TRUE
    /\ runsSinceSet = 0
    /\ expectedParams = InitialParams
    /\ failedSinceStart = <<>>

\* clearTimeout(id)
ClearTimeout(pending, id) == {t \in pending : t.id # id}

\* fetchOptimize(p) up to its await: setLoading(true); setError(null); runOptimize(p)
\* sends the POST
fetchOptimize(p) ==
    /\ optLoading' = TRUE
    /\ optError' = <<>>
    /\ requests' = requests \cup {[rid |-> nextRid, params |-> p]}
    /\ nextRid' = nextRid + 1
    /\ lastOutcome' = "pending"
    /\ postsSinceSet' = Append(postsSinceSet, [params |-> p, at |-> sinceSet])
    /\ failedSinceStart' = <<>>

\* The mount effect: fetchOptimize(initialParams)
Mount ==
    /\ hookMounted = "no"
    /\ hookMounted' = "mounted"
    /\ fetchOptimize(InitialParams)
    /\ UNCHANGED <<params, closureParams, timers, debounceRef, nextTimerId, optData,
                   calls, sinceSet, lastNext, burstLen, burstClean, runsSinceSet,
                   expectedParams, notHook>>

\* React re-renders: updateParams and runNow are re-created over the current params
Render ==
    /\ hookMounted = "mounted"
    /\ closureParams # params
    /\ closureParams' = params
    /\ UNCHANGED <<hookMounted, params, timers, debounceRef, nextTimerId, requests,
                   nextRid, optData, optLoading, optError, calls, lastOutcome, burstVars,
                   notHook>>

\* Mutant of updateParams: the pending timer is not cleared
updateParams_noClear(updates) ==
    /\ hookMounted = "mounted"
    /\ calls < MaxCalls
    /\ LET next == Merge(closureParams, updates)
       IN  /\ params' = next
           /\ timers' = timers \cup {[id |-> nextTimerId, left |-> DEBOUNCE_MS, next |-> next]}
           /\ lastNext' = <<next>>
    /\ debounceRef' = nextTimerId
    /\ nextTimerId' = nextTimerId + 1
    /\ calls' = calls + 1
    /\ sinceSet' = 0
    /\ postsSinceSet' = <<>>
    /\ burstLen' = IF debounceRef # 0 THEN burstLen + 1 ELSE 1
    /\ burstClean' = TRUE
    /\ runsSinceSet' = 0
    /\ expectedParams' = Merge(expectedParams, updates)
    /\ UNCHANGED <<hookMounted, closureParams, requests, nextRid, optData, optLoading,
                   optError, lastOutcome, failedSinceStart, notHook>>

\* setParams = updateParams(updates)
updateParams(updates) ==
    /\ hookMounted = "mounted"
    /\ calls < MaxCalls
    /\ LET next == Merge(closureParams, updates)
           kept == IF debounceRef # 0 THEN ClearTimeout(timers, debounceRef) ELSE timers
       IN  /\ params' = next
           /\ timers' = kept \cup {[id |-> nextTimerId, left |-> DEBOUNCE_MS, next |-> next]}
           /\ lastNext' = <<next>>
    /\ debounceRef' = nextTimerId
    /\ nextTimerId' = nextTimerId + 1
    /\ calls' = calls + 1
    /\ sinceSet' = 0
    /\ postsSinceSet' = <<>>
    /\ burstLen' = IF debounceRef # 0 THEN burstLen + 1 ELSE 1
    /\ burstClean' = TRUE
    /\ runsSinceSet' = 0
    /\ expectedParams' = Merge(expectedParams, updates)
    /\ UNCHANGED <<hookMounted, closureParams, requests, nextRid, optData, optLoading,
                   optError, lastOutcome, failedSinceStart, notHook>>

\* Time passes; a due timer runs before time moves on
HookTick ==
    /\ timers # {}
    /\ \A t \in timers : t.left > 0
    /\ timers' = {[t EXCEPT !.left = Max(0, t.left - HookTickMs)] : t \in timers}
    /\ sinceSet' = sinceSet + HookTickMs
    /\ UNCHANGED <<hookMounted, params, closureParams, debounceRef, nextTimerId, requests,
                   nextRid, optData, optLoading, optError, calls, lastOutcome, postsSinceSet,
                   lastNext, burstLen, burstClean, runsSinceSet, expectedParams,
                   failedSinceStart, notHook>>

\* The debounce timer's callback: debounceRef.current = null; fetchOptimize(next)
TimerFire(t) ==
    /\ t \in timers
    /\ t.left = 0
    /\ timers' = timers \ {t}
    /\ debounceRef' = 0
    /\ fetchOptimize(t.next)
    /\ UNCHANGED <<hookMounted, params, closureParams, nextTimerId, optData, calls,
                   sinceSet, lastNext, burstLen, burstClean, runsSinceSet, expectedParams,
                   notHook>>

\* Mutant of runNow: the pending debounce timer is left running
runNow_keepsTimer ==
    /\ hookMounted = "mounted"
    /\ calls < MaxCalls
    /\ fetchOptimize(closureParams)
    /\ calls' = calls + 1
    /\ burstClean' = FALSE
    /\ runsSinceSet' = runsSinceSet + 1
    /\ UNCHANGED <<hookMounted, params, closureParams, timers, debounceRef, nextTimerId,
                   optData, sinceSet, lastNext, burstLen, expectedParams, notHook>>

\* runNow: cancel the pending timer, fetchOptimize(params)
runNow ==
    /\ hookMounted = "mounted"
    /\ calls < MaxCalls
    /\ IF debounceRef # 0
       THEN timers' = ClearTimeout(timers, debounceRef) /\ debounceRef' = 0
       ELSE UNCHANGED <<timers, debounceRef>>
    /\ fetchOptimize(closureParams)
    /\ calls' = calls + 1
    /\ burstClean' = FALSE
    /\ runsSinceSet' = runsSinceSet + 1
    /\ UNCHANGED <<hookMounted, params, closureParams, nextTimerId, optData,
                   sinceSet, lastNext, burstLen, expectedParams, notHook>>

\* runOptimize resolved: setData(result); finally setLoading(false)
OptimizeResolved(r) ==
    /\ r \in requests
    /\ requests' = requests \ {r}
    /\ optData' = <<[rid |-> r.rid, params |-> r.params]>>
    /\ optLoading' = FALSE
    /\ lastOutcome' = IF r.rid = nextRid - 1 THEN "ok" ELSE lastOutcome
    /\ UNCHANGED <<hookMounted, params, closureParams, timers, debounceRef, nextTimerId,
                   nextRid, optError, calls, burstVars, notHook>>

\* Mutant of OptimizeRejected: the catch block also drops the displayed result
OptimizeRejected_clearsData(r, message) ==
    /\ r \in requests
    /\ requests' = requests \ {r}
    /\ optError' = <<message>>
    /\ optData' = <<>>
    /\ optLoading' = FALSE
    /\ lastOutcome' = IF r.rid = nextRid - 1 THEN "failed" ELSE lastOutcome
    /\ failedSinceStart' = <<[message |-> message,
                             nth |-> IF failedSinceStart = <<>> THEN 1
                                     ELSE failedSinceStart[1].nth + 1]>>
    /\ UNCHANGED <<hookMounted, params, closureParams, timers, debounceRef, nextTimerId,
                   nextRid, calls, sinceSet, postsSinceSet, lastNext, burstLen,
                   burstClean, runsSinceSet, expectedParams, notHook>>

\* runOptimize threw: setError(e.message); finally setLoading(false)
OptimizeRejected(r, message) ==
    /\ r \in requests
    /\ requests' = requests \ {r}
    /\ optError' = <<message>>
    /\ optLoading' = FALSE
    /\ lastOutcome' = IF r.rid = nextRid - 1 THEN "failed" ELSE lastOutcome
    /\ failedSinceStart' = <<[message |-> message,
                             nth |-> IF failedSinceStart = <<>> THEN 1
                                     ELSE failedSinceStart[1].nth + 1]>>
    /\ UNCHANGED <<hookMounted, params, closureParams, timers, debounceRef, nextTimerId,
                   nextRid, optData, calls, sinceSet, postsSinceSet, lastNext, burstLen,
                   burstClean, runsSinceSet, expectedParams, notHook>>

\* The mount effect's cleanup: if (debounceRef.current) clearTimeout(debounceRef.current)
Unmount ==
    /\ hookMounted = "mounted"
    /\ hookMounted' = "unmounted"
    /\ timers' = IF debounceRef # 0 THEN ClearTimeout(timers, debounceRef) ELSE timers
    /\ UNCHANGED <<params, closureParams, debounceRef, nextTimerId, requests, nextRid,
                   optData, optLoading, optError, calls, lastOutcome, burstVars, notHook>>

(***************************************************************************)
(* MapView (part_002 14-124).  mapbox-gl is the environment: the dynamic   *)
(* import settles when it likes, a created map fires `load` at most once,  *)
(* and the style calls behave as mapbox-gl documents them.                 *)
(***************************************************************************)
LayerModes == {"pollution", "congestion"}

\* The data prop the parent passes, by version: zones_geojson.features[].properties
\* and hubs[].usage
MapData(v) ==
    [zones_geojson |-> <<[zone_id |-> 0, pollution |-> 500, congestion |-> v],
                         [zone_id |-> 1, pollution |-> 260, congestion |-> 2 * v]>>,
     hubs |-> <<[hub_id |-> 0, usage |-> 12 * v], [hub_id |-> 1, usage |-> 8]>>]

\* Math.max(...values, floor)
RECURSIVE MathMax(_, _)
MathMax(values, floor) ==
    IF values = <<>> THEN floor
    ELSE MathMax(Tail(values), Max(Head(values), floor))

\* A fresh style: no sources, no layers; errors collects what the library refused
\* or threw, thrown says an exception ended the effect
EmptyStyle == [sources |-> {}, layers |-> {}, errors |-> {}, thrown |-> FALSE]

\* map.getLayer(id), map.getSource(id)
GetLayer(st, id) == \E l \in st.layers : l.id = id
GetSource(st, id) == \E src \in st.sources : src.id = id

\* map.removeLayer(id)
RemoveLayer(st, id) ==
    IF st.thrown THEN st
    ELSE [st EXCEPT !.layers = {l \in st.layers : l.id # id}]

\* map.removeSource(id): mapbox-gl refuses, with an error event, to remove a source
\* a layer still uses
RemoveSource(st, id) ==
    IF st.thrown THEN st
    ELSE IF \E l \in st.layers : l.source = id
         THEN [st EXCEPT !.errors = st.errors \cup {<<"removeSource", id, "in use">>}]
         ELSE [st EXCEPT !.sources = {src \in st.sources : src.id # id}]

\* map.addSource(id, ..): mapbox-gl throws when the id exists
AddSource(st, id, data) ==
    IF st.thrown THEN st
    ELSE IF GetSource(st, id)
         THEN [st EXCEPT !.errors = st.errors \cup {<<"addSource", id, "exists">>},
                         !.thrown = TRUE]
         ELSE [st EXCEPT !.sources = st.sources \cup {[id |-> id, data |-> data]}]

\* map.addLayer({id, source, paint}): mapbox-gl refuses, with an error event, an id
\* that exists or a source that does not
AddLayer(st, id, source, paint) ==
    IF st.thrown THEN st
    ELSE IF GetLayer(st, id)
         THEN [st EXCEPT !.errors = st.errors \cup {<<"addLayer", id, "exists">>}]
         ELSE IF ~GetSource(st, source)
              THEN [st EXCEPT !.errors = st.errors \cup {<<"addLayer", id, "no source">>}]
              ELSE [st EXCEPT !.layers =
                        st.layers \cup {[id |-> id, source |-> source, paint |-> paint]}]

\* if (map.getLayer(id)) map.removeLayer(id)
RemoveLayerIfPresent(st, id) == IF GetLayer(st, id) THEN RemoveLayer(st, id) ELSE st

\* if (map.getSource(id)) map.removeSource(id)
RemoveSourceIfPresent(st, id) == IF GetSource(st, id) THEN RemoveSource(st, id) ELSE st

\* paint of zones-fill: interpolate over layerMode's property, up to 1 for pollution
\* and up to maxCongestion for congestion
FillPaint(data, mode) ==
    LET congestions == [k \in DOMAIN data.zones_geojson |-> data.zones_geojson[k].congestion]
    IN  [get |-> mode, top |-> IF mode = "pollution" THEN 1 ELSE MathMax(congestions, 1)]

\* paint of hubs: the radius divides usage by maxUsage
HubsPaint(data) ==
    [get |-> "usage", top |-> MathMax([k \in DOMAIN data.hubs |-> data.hubs[k].usage], 1)]

OutlinePaint == [get |-> "none", top |-> 0]

\* data.hubs.map(..): the hub points
HubPoints(data) == [k \in DOMAIN data.hubs |-> data.hubs[k]]

\* The body of the layer effect past its guard (part_002 60-122), call by call
LayerEffectBody(st, data, mode) ==
    LET s1 == RemoveLayerIfPresent(st, "zones-fill")
        s2 == RemoveSourceIfPresent(s1, "zones")
        s3 == RemoveLayerIfPresent(s2, "zones-outline")
        s4 == RemoveLayerIfPresent(s3, "hubs")
        s5 == RemoveSourceIfPresent(s4, "hubs")
        s6 == AddSource(s5, "zones", data.zones_geojson)
        s7 == AddLayer(s6, "zones-fill", "zones", FillPaint(data, mode))
        s8 == AddLayer(s7, "zones-outline", "zones", OutlinePaint)
        s9 == AddSource(s8, "hubs", HubPoints(data))
    IN  AddLayer(s9, "hubs", "hubs", HubsPaint(data))

\* useRef / useState initial values, before the component mounts
MapQuiet ==
    /\ mvMounted = "no"
    /\ mvToken = TRUE
    /\ mvRuns = <<>>
    /\ mapRef = 0
    /\ mapReady = FALSE
    /\ mvData = <<>>
    /\ layerMode = "pollution"
    /\ mvEffectDue = FALSE
    /\ mvSources = {}
    /\ mvLayers = {}
    /\ mvErrors = {}
    /\ mvEffectRuns = 0

\* The component mounts (again, under React's strict mode: refs and state are kept).
\* The init effect runs: without the token the map container is not rendered and
\* the effect returns at once, without a cleanup; with it, import('mapbox-gl')
\* starts.  The layer effect runs too and returns at its guard.
MapViewMount ==
    /\ mvMounted \in {"no", "unmounted"}
    /\ Len(mvRuns) < MaxMounts
    /\ mvMounted' = "mounted"
    /\ mvRuns' = Append(mvRuns, [cancelled |-> FALSE,
                                 import |-> IF mvToken THEN "pending" ELSE "none",
                                 map |-> "none",
                                 removes |-> 0])
    /\ mvEffectDue' = FALSE
    /\ UNCHANGED <<mvToken, mapRef, mapReady, mvData, layerMode, mvSources, mvLayers,
                   mvErrors, mvEffectRuns, notMap>>

\* import('mapbox-gl') of run k resolves: if (cancelled || !containerRef.current)
\* return; otherwise the map is created and the load handler registered
ImportResolved(k) ==
    /\ k \in DOMAIN mvRuns
    /\ mvRuns[k].import = "pending"
    /\ mvRuns' = [mvRuns EXCEPT ![k].import = "resolved",
                                ![k].map = IF mvRuns[k].cancelled \/ mvMounted # "mounted"
                                           THEN "none" ELSE "created"]
    /\ UNCHANGED <<mvMounted, mvToken, mapRef, mapReady, mvData, layerMode, mvEffectDue,
                   mvSources, mvLayers, mvErrors, mvEffectRuns, notMap>>

\* import('mapbox-gl') of run k rejects (the chunk fails to load): nothing handles it
ImportRejected(k) ==
    /\ k \in DOMAIN mvRuns
    /\ mvRuns[k].import = "pending"
    /\ mvRuns' = [mvRuns EXCEPT ![k].import = "rejected"]
    /\ UNCHANGED <<mvMounted, mvToken, mapRef, mapReady, mvData, layerMode, mvEffectDue,
                   mvSources, mvLayers, mvErrors, mvEffectRuns, notMap>>

\* Mutant of MapLoad: the load handler does not look at `cancelled`
MapLoad_noCancelCheck(k) ==
    /\ k \in DOMAIN mvRuns
    /\ mvRuns[k].map = "created"
    /\ mvRuns' = [mvRuns EXCEPT ![k].map = "loaded"]
    /\ mapRef' = k
    /\ mapReady' = TRUE
    /\ mvSources' = {}
    /\ mvLayers' = {}
    /\ mvEffectDue' = (mvEffectDue \/ ~mapReady)
    /\ UNCHANGED <<mvMounted, mvToken, mvData, layerMode, mvErrors, mvEffectRuns, notMap>>

\* The map of run k fires `load`: if (cancelled) { map.remove(); return; }
\* mapRef.current = map; setMapReady(true)
MapLoad(k) ==
    /\ k \in DOMAIN mvRuns
    /\ mvRuns[k].map = "created"
    /\ IF mvRuns[k].cancelled
       THEN /\ mvRuns' = [mvRuns EXCEPT ![k].map = "loaded",
                                        ![k].removes = mvRuns[k].removes + 1]
            /\ UNCHANGED <<mapRef, mapReady, mvSources, mvLayers, mvEffectDue>>
       ELSE /\ mvRuns' = [mvRuns EXCEPT ![k].map = "loaded"]
            /\ mapRef' = k
            /\ mapReady' = TRUE
            /\ mvSources' = {}
            /\ mvLayers' = {}
            /\ mvEffectDue' = (mvEffectDue \/ ~mapReady)
    /\ UNCHANGED <<mvMounted, mvToken, mvData, layerMode, mvErrors, mvEffectRuns, notMap>>

\* The component unmounts.  The cleanup of the init effect, which exists only when
\* the effect got past its early returns: cancelled = true; if (mapRef.current)
\* { mapRef.current.remove(); mapRef.current = null; } setMapReady(false)
MapViewUnmount ==
    /\ mvMounted = "mounted"
    /\ mvMounted' = "unmounted"
    /\ LET k == Len(mvRuns)
       IN  IF mvRuns[k].import = "none"
           THEN UNCHANGED <<mvRuns, mapRef, mapReady, mvSources, mvLayers>>
           ELSE /\ mvRuns' = [j \in DOMAIN mvRuns |->
                                 [mvRuns[j] EXCEPT
                                     !.cancelled = (j = k) \/ mvRuns[j].cancelled,
                                     !.removes = IF j = mapRef
                                                 THEN mvRuns[j].removes + 1
                                                 ELSE mvRuns[j].removes]]
                /\ mapRef' = 0
                /\ mapReady' = FALSE
                /\ mvSources' = {}
                /\ mvLayers' = {}
    /\ mvEffectDue' = FALSE
    /\ UNCHANGED <<mvToken, mvData, layerMode, mvErrors, mvEffectRuns, notMap>>

\* The parent re-renders MapView with other data (a refresh)
MapViewSetData(v) ==
    /\ mvMounted = "mounted"
    /\ mvData # <<v>>
    /\ mvData' = <<v>>
    /\ mvEffectDue' = TRUE
    /\ UNCHANGED <<mvMounted, mvToken, mvRuns, mapRef, mapReady, layerMode, mvSources,
                   mvLayers, mvErrors, mvEffectRuns, notMap>>

\* The Pollution / Congestion buttons: setLayerMode(mode)
SetLayerMode(mode) ==
    /\ mvMounted = "mounted"
    /\ mvToken
    /\ layerMode # mode
    /\ layerMode' = mode
    /\ mvEffectDue' = TRUE
    /\ UNCHANGED <<mvMounted, mvToken, mvRuns, mapRef, mapReady, mvData, mvSources,
                   mvLayers, mvErrors, mvEffectRuns, notMap>>

\* The layer effect, run after a render in which data, mapReady or layerMode changed:
\* if (!map || !mapReady || !data) return; then the calls of LayerEffectBody
LayerEffect ==
    /\ mvMounted = "mounted"
    /\ mvEffectDue
    /\ mvEffectDue' = FALSE
    /\ IF mapRef = 0 \/ ~mapReady \/ mvData = <<>>
       THEN UNCHANGED <<mvSources, mvLayers, mvErrors, mvEffectRuns>>
       ELSE LET st == LayerEffectBody([EmptyStyle EXCEPT !.sources = mvSources,
                                                         !.layers = mvLayers],
                                      MapData(mvData[1]), layerMode)
            IN  /\ mvSources' = st.sources
                /\ mvLayers' = st.layers
                /\ mvErrors' = mvErrors \cup st.errors
                /\ mvEffectRuns' = Min(2, mvEffectRuns + 1)
    /\ UNCHANGED <<mvMounted, mvToken, mvRuns, mapRef, mapReady, mvData, layerMode, notMap>>

(***************************************************************************)
(* fetchDemo and fetchWithTimeout (useOptimize.ts 182-189, 291-304).      *)
(* The backend is the environment: it may refuse the connection, answer   *)
(* with any status and any body, or stay silent at any point.             *)
(***************************************************************************)
LOCALHOST_API == "http://127.0.0.1:8000"
HOSTED_API == "https://api.example.com"

\* const API_BASE = process.env.NEXT_PUBLIC_API_URL || 'http://127.0.0.1:8000'
API_BASE == IF apiUrlEnv # "" THEN apiUrlEnv ELSE LOCALHOST_API

\* The body GET /demo sends when the backend works: a fixed representative response
DemoApiResponse ==
    BuildResponse([k \in 1..MaxTrucks |->
                      [truck_id |-> k - 1,
                       hub_id |-> (k - 1) % MaxHubs,
                       slot_id |-> (k - 1) \div MaxHubs]],
                  MaxHubs, TRUE)

\* Bodies a server may send
BodyKinds == {"response_json", "detail_json", "null_json", "not_json"}

\* res.json(): <<value>> when the body parses, <<>> when it throws
JsonParse(kind) ==
    CASE kind = "response_json" -> <<DemoApiResponse>>
      [] kind = "detail_json"   -> <<[detail |-> "Service Unavailable"]>>
      [] kind = "null_json"     -> <<[json_null |-> TRUE]>>
      [] kind = "not_json"      -> <<>>

PipeStart ==
    /\ phase = "idle"
    /\ optNumHubs = 1
    /\ optBudget = 0
    /\ optWithOpt = FALSE
    /\ optCursor = 0
    /\ optAssigned = <<>>
    /\ optSpent = 0
    /\ optUnassigned = <<>>
    /\ resp = <<>>
    /\ respSource = "none"

\* useDemoData's useState initial values; the mount effect has not run yet
UseDemoDataInit ==
    /\ loadPc = "mount"
    /\ demoData = <<>>
    /\ demoLoading = TRUE
    /\ demoError = <<>>
    /\ demoFromApi = TRUE
    /\ demoDataOrigin = "none"
    /\ homeShown = [data |-> <<>>, fromApi |-> TRUE, origin |-> "none"]

DemoQuiet ==
    /\ apiUrlEnv = ""
    /\ demoPc = "idle"
    /\ demoUrl = <<>>
    /\ demoTimer = -1
    /\ demoRes = <<>>
    /\ demoBody = <<>>
    /\ demoOutcome = "pending"
    /\ demoResult = <<>>
    /\ UseDemoDataInit

\* catch { return { data: getFallbackDemo(), fromApi: false } }
FetchDemoCatch ==
    /\ demoPc' = "settled"
    /\ demoOutcome' = "resolved"
    /\ demoResult' = <<[data |-> getFallbackDemo, fromApi |-> FALSE]>>

\* fetchDemo() is called: fetchWithTimeout arms the abort timer and issues the request
FetchDemoStart ==
    /\ demoPc' = "fetching"
    /\ demoUrl' = <<[base |-> API_BASE, path |-> "/demo"]>>
    /\ demoTimer' = DEMO_TIMEOUT_MS
    /\ demoRes' = <<>>
    /\ demoBody' = <<>>
    /\ demoOutcome' = "pending"
    /\ demoResult' = <<>>
    /\ UNCHANGED apiUrlEnv

\* useDemoData.load(), run by the mount effect and by refresh (the Refresh button is
\* disabled while loading): setLoading(true); setError(null); await fetchDemo()
Load ==
    /\ loadPc = "mount" \/ (loadPc = "done" /\ ~demoLoading)
    /\ loadPc' = "awaiting"
    /\ demoLoading' = TRUE
    /\ demoError' = <<>>
    /\ FetchDemoStart
    /\ UNCHANGED <<demoData, demoFromApi, demoDataOrigin, homeShown, notDemo>>

\* The response was OK and its body parsed: fetchDemo returns at `return { data,
\* fromApi: true }`, and in every other case from its catch block
DemoOkAndParsed ==
    /\ demoRes # <<>>
    /\ demoRes[1].ok
    /\ demoBody # <<>>
    /\ JsonParse(demoBody[1]) # <<>>

\* The await returns.  fetchDemo resolved: setData(result.data).  fetchDemo rejected:
\* catch (e) setError(message); finally setLoading(false).  React renders once the
\* continuation is over, not between its state updates.
LoadResume ==
    /\ loadPc = "awaiting"
    /\ demoOutcome # "pending"
    /\ IF demoOutcome = "resolved"
       THEN /\ demoData' = <<demoResult[1].data>>
            /\ demoDataOrigin' = IF DemoOkAndParsed THEN "api" ELSE "fallback"
            /\ loadPc' = "setData"
            /\ UNCHANGED <<demoLoading, demoError>>
       ELSE /\ demoError' = <<"Failed to load">>
            /\ demoLoading' = FALSE
            /\ loadPc' = "done"
            /\ UNCHANGED <<demoData, demoDataOrigin>>
    /\ UNCHANGED <<demoFromApi, homeShown, demoVars, notDemo>>

\* Mutant of LoadSetFromApi: setFromApi is not called
LoadSetFromApi_keepsFromApi ==
    /\ loadPc = "setData"
    /\ demoLoading' = FALSE
    /\ loadPc' = "done"
    /\ homeShown' = [data |-> demoData, fromApi |-> demoFromApi, origin |-> demoDataOrigin]
    /\ UNCHANGED <<demoData, demoError, demoFromApi, demoDataOrigin, demoVars, notDemo>>

\* ... setFromApi(result.fromApi); finally setLoading(false); Home renders the
\* batched updates
LoadSetFromApi ==
    /\ loadPc = "setData"
    /\ demoFromApi' = demoResult[1].fromApi
    /\ demoLoading' = FALSE
    /\ loadPc' = "done"
    /\ homeShown' = [data |-> demoData, fromApi |-> demoResult[1].fromApi,
                     origin |-> demoDataOrigin]
    /\ UNCHANGED <<demoData, demoError, demoDataOrigin, demoVars, notDemo>>

\* Time passes while the abort timer is pending
DemoTick ==
    /\ demoTimer > 0
    /\ demoTimer' = Max(0, demoTimer - DemoTickMs)
    /\ UNCHANGED <<apiUrlEnv, demoPc, demoUrl, demoRes, demoBody, demoOutcome,
                   demoResult, useDemoVars, notDemo>>

\* The timer fires: ctrl.abort() rejects the pending fetch (or body read) with an
\* AbortError, which fetchDemo catches
DemoTimeout ==
    /\ demoTimer = 0
    /\ demoPc \in {"fetching", "readBody", "readErrBody"}
    /\ demoTimer' = -1
    /\ FetchDemoCatch
    /\ UNCHANGED <<apiUrlEnv, demoUrl, demoRes, demoBody, useDemoVars, notDemo>>

\* The request fails (connection refused, DNS, CORS): fetch rejects, .finally clears
\* the timer, fetchDemo catches
DemoNetworkError ==
    /\ demoPc = "fetching"
    /\ demoTimer' = -1
    /\ FetchDemoCatch
    /\ UNCHANGED <<apiUrlEnv, demoUrl, demoRes, demoBody, useDemoVars, notDemo>>

\* Response headers arrive: fetch resolves, .finally clears the timer, and fetchDemo
\* goes on to read the body (res.json())
DemoHeaders(ok) ==
    /\ demoPc = "fetching"
    /\ demoRes' = <<[ok |-> ok]>>
    /\ demoTimer' = -1
    /\ demoPc' = IF ok THEN "readBody" ELSE "readErrBody"
    /\ UNCHANGED <<apiUrlEnv, demoUrl, demoBody, demoOutcome, demoResult, useDemoVars, notDemo>>

\* Mutant of DemoBody: the second await is outside the try block
DemoBody_parseOutsideTry(kind) ==
    /\ demoPc = "readBody"
    /\ demoBody' = <<kind>>
    /\ demoPc' = "settled"
    /\ IF JsonParse(kind) # <<>>
       THEN /\ demoOutcome' = "resolved"
            /\ demoResult' = <<[data |-> JsonParse(kind)[1], fromApi |-> TRUE]>>
       ELSE /\ demoOutcome' = "rejected"
            /\ demoResult' = <<>>
    /\ UNCHANGED <<apiUrlEnv, demoUrl, demoTimer, demoRes, useDemoVars, notDemo>>

\* The body of an OK response has arrived: await res.json()
DemoBody(kind) ==
    /\ demoPc = "readBody"
    /\ demoBody' = <<kind>>
    /\ IF JsonParse(kind) # <<>>
       THEN /\ demoPc' = "settled"
            /\ demoOutcome' = "resolved"
            /\ demoResult' = <<[data |-> JsonParse(kind)[1], fromApi |-> TRUE]>>
       ELSE FetchDemoCatch
    /\ UNCHANGED <<apiUrlEnv, demoUrl, demoTimer, demoRes, useDemoVars, notDemo>>

\* The body of a non-OK response has arrived: res.json().catch(..) yields err, and
\* throw new Error(err.detail || String(err)) (or the TypeError of null.detail) is caught
DemoErrBody(kind) ==
    /\ demoPc = "readErrBody"
    /\ demoBody' = <<kind>>
    /\ FetchDemoCatch
    /\ UNCHANGED <<apiUrlEnv, demoUrl, demoTimer, demoRes, useDemoVars, notDemo>>

InitDemoAnyEnv ==
    /\ PipeStart
    /\ apiUrlEnv \in {"", HOSTED_API}
    /\ demoPc = "idle"
    /\ demoUrl = <<>>
    /\ demoTimer = -1
    /\ demoRes = <<>>
    /\ demoBody = <<>>
    /\ demoOutcome = "pending"
    /\ demoResult = <<>>
    /\ UseDemoDataInit
    /\ HookQuiet
    /\ FallbackQuiet
    /\ RouterQuiet
    /\ PairQuiet
    /\ MapQuiet

NextDemo ==
    \/ Load
    \/ LoadResume
    \/ LoadSetFromApi
    \/ DemoTick
    \/ DemoTimeout
    \/ DemoNetworkError
    \/ \E ok \in BOOLEAN : DemoHeaders(ok)
    \/ \E kind \in BodyKinds : DemoBody(kind)
    \/ \E kind \in BodyKinds : DemoErrBody(kind)

SpecDemo == InitDemoAnyEnv /\ [][NextDemo]_vars

\* The JavaScript runtime runs due timers and time does not stop; the backend is
\* under no obligation to answer
FairSpecDemo == SpecDemo /\ WF_vars(DemoTick) /\ WF_vars(DemoTimeout)

(***************************************************************************)
(* Response pipeline: one optimize call at a time, or the fallback demo.  *)
(***************************************************************************)
\* A new optimize call: trucks are created fresh, nothing persists from the last run
OptimizeStart(numHubs, budget, withOpt) ==
    /\ phase = "idle"
    /\ phase' = "solving"
    /\ optNumHubs' = numHubs
    /\ optUnassigned' = <<>>
    /\ optBudget' = budget
    /\ optWithOpt' = withOpt
    /\ optCursor' = 0
    /\ optAssigned' = <<>>
    /\ optSpent' = 0
    /\ resp' = <<>>
    /\ respSource' = "none"
    /\ UNCHANGED notPipe

OptAssign(h, s) ==
    /\ phase = "solving"
    /\ optCursor < MaxTrucks
    /\ Feasible(optAssigned, optSpent, optBudget, h, s)
    /\ (~optWithOpt) => s = EarliestAvailableSlot(optAssigned, h)
    /\ optAssigned' = Append(optAssigned,
                             [truck_id |-> optCursor, hub_id |-> h, slot_id |-> s])
    /\ optSpent' = optSpent + AssignmentFee
    /\ optCursor' = optCursor + 1
    /\ UNCHANGED <<phase, optNumHubs, optBudget, optWithOpt, optUnassigned, resp, respSource,
                   notPipe>>

\* Mutant of OptSkip: the truck is dropped without being reported
OptSkip_dropsTruck ==
    /\ phase = "solving"
    /\ optCursor < MaxTrucks
    /\ \A h \in OptHubs, s \in OptSlots :
           ~Feasible(optAssigned, optSpent, optBudget, h, s)
    /\ optCursor' = optCursor + 1
    /\ UNCHANGED <<phase, optNumHubs, optBudget, optWithOpt, optAssigned, optSpent,
                   optUnassigned, resp, respSource, notPipe>>

\* Infeasibility is tolerated: the truck stays unassigned and is reported as such
OptSkip ==
    /\ phase = "solving"
    /\ optCursor < MaxTrucks
    /\ \A h \in OptHubs, s \in OptSlots :
           ~Feasible(optAssigned, optSpent, optBudget, h, s)
    /\ optUnassigned' = Append(optUnassigned, optCursor)
    /\ optCursor' = optCursor + 1
    /\ UNCHANGED <<phase, optNumHubs, optBudget, optWithOpt, optAssigned, optSpent, resp,
                   respSource, notPipe>>

OptRespond ==
    /\ phase = "solving"
    /\ optCursor = MaxTrucks
    /\ resp' = <<BuildResponse(optAssigned, optNumHubs, optWithOpt)>>
    /\ respSource' = "optimizer"
    /\ phase' = "idle"
    /\ UNCHANGED <<optNumHubs, optBudget, optWithOpt, optCursor, optAssigned, optSpent,
                   optUnassigned, notPipe>>

\* The demo loader falls back to the built-in sample response
ShowFallbackDemo ==
    /\ phase = "idle"
    /\ resp' = <<getFallbackDemo>>
    /\ respSource' = "fallback"
    /\ UNCHANGED <<phase, optNumHubs, optBudget, optWithOpt, optCursor, optAssigned, optSpent,
                   optUnassigned, notPipe>>

NextPipe ==
    \/ \E n \in 1..MaxHubs, b \in 0..MaxBudget, w \in BOOLEAN : OptimizeStart(n, b, w)
    \/ \E h \in OptHubs, s \in OptSlots : OptAssign(h, s)
    \/ OptSkip
    \/ OptRespond
    \/ ShowFallbackDemo

InitPipe ==
    /\ PipeStart
    /\ DemoQuiet
    /\ HookQuiet
    /\ FallbackQuiet
    /\ RouterQuiet
    /\ PairQuiet
    /\ MapQuiet

SpecPipe == InitPipe /\ [][NextPipe]_vars

InitHook ==
    /\ PipeStart
    /\ DemoQuiet
    /\ HookQuiet
    /\ FallbackQuiet
    /\ RouterQuiet
    /\ PairQuiet
    /\ MapQuiet

NextHook ==
    \/ Mount
    \/ Render
    \/ \E u \in Updates : updateParams(u)
    \/ HookTick
    \/ \E t \in timers : TimerFire(t)
    \/ runNow
    \/ \E r \in requests : OptimizeResolved(r)
    \/ \E r \in requests, m \in ErrorMessages : OptimizeRejected(r, m)
    \/ Unmount

SpecHook == InitHook /\ [][NextHook]_vars

\* Calls of getFallbackDemo at any times, under either build environment
NextFallback ==
    \/ ClockTick
    \/ CallGetFallbackDemo

SpecFallback == InitDemoAnyEnv /\ [][NextFallback]_vars

\* shortest_path calls on grids of up to MaxRows x MaxCols cells
GridCells(rows, cols) == (0..(rows - 1)) \X (0..(cols - 1))

NextRouter ==
    \/ \E rows \in 1..MaxRows, cols \in 1..MaxCols :
           \E origin \in GridCells(rows, cols), destination \in GridCells(rows, cols) :
               ShortestPathStart(rows, cols, origin, destination)
    \/ BfsStep

SpecRouter == InitPipe /\ [][NextRouter]_vars

\* Pairs of optimizer runs
Choices(numHubs) == ((0..(numHubs - 1)) \X OptSlots) \cup {NoChoice}

NextBudgetPair ==
    \/ \E n \in 1..MaxHubs, w \in BOOLEAN, low \in 0..MaxBudget, high \in 0..MaxBudget :
           BudgetPairStart(n, w, low, high)
    \/ \E choiceLow \in Choices(pairParams.numHubs), choiceHigh \in Choices(pairParams.numHubs) :
           BudgetPairDecide(choiceLow, choiceHigh)
    \/ BudgetPairReturn

SpecBudgetPair == InitPipe /\ [][NextBudgetPair]_vars

\* MapView with and without the Mapbox token
InitMap ==
    /\ PipeStart
    /\ DemoQuiet
    /\ HookQuiet
    /\ FallbackQuiet
    /\ RouterQuiet
    /\ PairQuiet
    /\ mvMounted = "no"
    /\ mvToken \in BOOLEAN
    /\ mvRuns = <<>>
    /\ mapRef = 0
    /\ mapReady = FALSE
    /\ mvData \in {<<>>, <<1>>}
    /\ layerMode = "pollution"
    /\ mvEffectDue = FALSE
    /\ mvSources = {}
    /\ mvLayers = {}
    /\ mvErrors = {}
    /\ mvEffectRuns = 0

NextMap ==
    \/ MapViewMount
    \/ \E k \in DOMAIN mvRuns : ImportResolved(k)
    \/ \E k \in DOMAIN mvRuns : ImportRejected(k)
    \/ \E k \in DOMAIN mvRuns : MapLoad(k)
    \/ MapViewUnmount
    \/ \E v \in 1..MaxDataVersions : MapViewSetData(v)
    \/ \E mode \in LayerModes : SetLayerMode(mode)
    \/ LayerEffect

SpecMap == InitMap /\ [][NextMap]_vars

\* The responses currently handed to the presentation layer
Responses == {resp[i] : i \in DOMAIN resp}


(***************************************************************************)
(* DriverView and BusinessView: what they derive from the response.        *)
(***************************************************************************)
\* DriverView: route = data.artificial_map.routes[truck_assignments.findIndex(..) ?? 0]
\* and routes: route ? [route] : [].  findIndex yields -1, never null, when nothing
\* matches, and routes[-1] is undefined: <<>> stands for no route.
DriverRoute(data, selectedTruck) ==
    LET idx == FindIndexByTruck(data.truck_assignments, selectedTruck)
    IN  IF idx + 1 \in DOMAIN data.artificial_map.routes
        THEN <<data.artificial_map.routes[idx + 1]>>
        ELSE <<>>

\* BusinessView.deliveriesToZone: hubZone = data.hubs.map((h) => h.zone_id);
\* list.filter((d) => hubZone[d.to_hub_id] === selectedZone).  hubZone is indexed
\* by array position; an index outside the array gives undefined, equal to no zone.
DeliveriesToZone(data, selectedZone) ==
    SelectSeq(data.deliveries,
              LAMBDA d : /\ d.to_hub_id + 1 \in DOMAIN data.hubs
                         /\ data.hubs[d.to_hub_id + 1].zone_id = selectedZone)

(***************************************************************************)
(* Claims about the response.                                              *)
(***************************************************************************)
AllSlots == 0..(NumSlots - 1)

CapacityRespected(r) ==
    \A k \in DOMAIN r.hub_usage, s \in AllSlots :
        SlotLoad(r.truck_assignments, r.hub_usage[k].hub_id, s) <= r.hub_usage[k].capacity

\* C1: every response handed to the presentation layer is feasible: no (hub, slot)
\* holds more trucks than the hub's capacity, and the monetary cost of the
\* optimizer's assignments (either mode) never exceeds the budget.
C1_ResponseFeasible ==
    /\ \A r \in Responses : CapacityRespected(r)
    /\ optSpent = AssignmentFee * Len(optAssigned)
    /\ optSpent <= optBudget
    /\ respSource = "optimizer" =>
           AssignmentFee * Len(resp[1].truck_assignments) <= optBudget

\* C1 witness: the optimizer hands over a partial assignment that used the whole
\* budget and filled a hub's slot
C1_Witness ==
    /\ respSource = "optimizer"
    /\ resp[1].status = "infeasible"
    /\ optSpent = optBudget
    /\ optBudget > 0
    /\ \E h \in OptHubs, s \in OptSlots :
           SlotLoad(resp[1].truck_assignments, h, s) = MaxCapacity

\* C2: each truck_id occurs at most once in truck_assignments, so find / findIndex by
\* truck_id return that truck's own entry.
C2_OneAssignmentPerTruck ==
    \A r \in Responses :
        LET ta == r.truck_assignments
        IN  \A i \in DOMAIN ta :
              /\ \A j \in DOMAIN ta : ta[i].truck_id = ta[j].truck_id => i = j
              /\ FindByTruck(ta, ta[i].truck_id) = <<ta[i]>>
              /\ FindIndexByTruck(ta, ta[i].truck_id) = i - 1

\* C2 witness: the fallback demo is shown and the lookup of truck 23 finds hub 3, slot 19
C2_Witness ==
    /\ respSource = "fallback"
    /\ FindByTruck(resp[1].truck_assignments, 23)
         = <<[truck_id |-> 23, hub_id |-> 3, slot_id |-> 19]>>

\* C7: congestion_per_time has, for each slot 0..23, the number of truck_assignments
\* in that slot.
C7_CongestionCountsAssignments ==
    \A r \in Responses :
        \A s \in AllSlots :
            /\ \E k \in DOMAIN r.congestion_per_time : r.congestion_per_time[k].slot_id = s
            /\ \A k \in DOMAIN r.congestion_per_time :
                   r.congestion_per_time[k].slot_id = s =>
                       r.congestion_per_time[k].trucks =
                           CountInSlot(r.truck_assignments, s)

\* C7 witness: the fallback demo is shown; slot 0 (where the || alternative would give 2)
\* reports its one truck
C7_Witness ==
    /\ respSource = "fallback"
    /\ resp[1].congestion_per_time[1].slot_id = 0
    /\ resp[1].congestion_per_time[1].trucks = 1

\* C8: hub_usage[h].assigned is the number of truck_assignments at hub h,
\* utilization_pct is 100 * assigned / capacity, and hubs[h].usage equals assigned.
C8_HubUsageCountsAssignments ==
    \A r \in Responses :
        \A k \in DOMAIN r.hub_usage :
            LET u == r.hub_usage[k]
            IN  /\ u.assigned =
                       CountAtHub(r.truck_assignments, u.hub_id)
                /\ u.utilization_pct[1] * u.capacity = 100 * u.assigned * u.utilization_pct[2]
                /\ \A j \in DOMAIN r.hubs :
                       r.hubs[j].hub_id = u.hub_id => r.hubs[j].usage = u.assigned

PollutionValues(r) ==
    {r.pollution_per_zone[k].pollution_level : k \in DOMAIN r.pollution_per_zone}
    \cup {r.zone_meta[k].pollution : k \in DOMAIN r.zone_meta}
    \cup {r.zone_features[k].pollution : k \in DOMAIN r.zone_features}

\* C9: every pollution level of a response lies in [0,1] (0..1000 thousandths), and
\* zoneColor yields channels within 0..255 for every zone id, known or not.
C9_PollutionBounded ==
    \A r \in Responses :
        /\ \A p \in PollutionValues(r) : 0 <= p /\ p <= 1000
        /\ \A z \in 0..NumZones :
               \A c \in 1..3 :
                   /\ 0 <= zoneColor(r.zone_meta, z)[c]
                   /\ zoneColor(r.zone_meta, z)[c] <= 255

\* C9 witness: the fallback demo is shown; zone 9 (not green) has pollution 0.74 and is
\* coloured rgb(241,161,200)
C9_Witness ==
    /\ respSource = "fallback"
    /\ resp[1].pollution_per_zone[10].pollution_level = 740
    /\ zoneColor(resp[1].zone_meta, 9) = <<241, 161, 200>>

\* C10: suggested_slots of every zone is in ascending order of the number of trucks
\* arriving in the slot at hubs of the zone, ties broken by ascending slot id.
C10_QuietSlotsRanked ==
    \A r \in Responses :
        \A k \in DOMAIN r.quiet_slots_by_zone :
            LET q == r.quiet_slots_by_zone[k]
            IN  \A i \in 1..(Len(q.suggested_slots) - 1) :
                    SlotBefore(r.truck_assignments, r.hubs, q.zone_id,
                               q.suggested_slots[i], q.suggested_slots[i + 1])

\* C11: in every response, the fallback demo included, n_assigned,
\* platform_summary.n_trucks_assigned and the number of entries of
\* truck_assignments are equal.
C11_AssignedCountsAgree ==
    \A r \in Responses :
        /\ r.n_assigned = Len(r.truck_assignments)
        /\ r.n_trucks_assigned = Len(r.truck_assignments)

\* The fallback demo is shown: 24 assignments and both counters say 24
C11_Witness ==
    /\ respSource = "fallback"
    /\ \E r \in Responses :
           /\ Len(r.truck_assignments) = DemoTrucks
           /\ r.n_assigned = DemoTrucks
           /\ r.n_trucks_assigned = DemoTrucks

\* The slot identifiers a response carries
SlotIds(r) ==
    {r.truck_assignments[i].slot_id : i \in DOMAIN r.truck_assignments}
    \cup {r.congestion_per_time[i].slot_id : i \in DOMAIN r.congestion_per_time}
    \cup {r.driver_tips[i].slot_id : i \in DOMAIN r.driver_tips}
    \cup {r.deliveries[i].scheduled_slot : i \in DOMAIN r.deliveries}
    \cup UNION {{r.quiet_slots_by_zone[i].suggested_slots[j] :
                    j \in DOMAIN r.quiet_slots_by_zone[i].suggested_slots} :
                i \in DOMAIN r.quiet_slots_by_zone}

\* C12: every slot identifier in a response, the fallback demo included
\* (truck_assignments.slot_id, congestion_per_time.slot_id, driver_tips.slot_id,
\* deliveries.scheduled_slot, suggested_slots), is an integer in [0,23].
C12_SlotIdsInRange ==
    \A r \in Responses : SlotIds(r) \subseteq AllSlots

\* The fallback demo is shown; its assignments, tips and deliveries reach both
\* ends of the range
C12_Witness ==
    /\ respSource = "fallback"
    /\ \E r \in Responses :
           /\ \E i \in DOMAIN r.truck_assignments : r.truck_assignments[i].slot_id = 23
           /\ \E i \in DOMAIN r.driver_tips : r.driver_tips[i].slot_id = 0
           /\ \E i \in DOMAIN r.deliveries : r.deliveries[i].scheduled_slot = 23

\* The status tags of a Result (spec 4.4)
StatusTags == {"optimal", "feasible", "infeasible"}

\* C13: the status of every response delivered to the UI, the fallback demo
\* included, is one of the tags optimal, feasible, infeasible, and objective_value
\* is null exactly when no assignment was possible.
C13_StatusTagAndObjective ==
    \A r \in Responses :
        /\ r.status \in StatusTags
        /\ (r.objective_value = <<>>) <=> (Len(r.truck_assignments) = 0)

\* A returned response without its last_updated field
WithoutLastUpdated(r) == [f \in (DOMAIN r) \ {"last_updated"} |-> r[f]]

C15_TipsMatchAssignments ==
    \A r \in Responses :
        /\ \A i \in DOMAIN r.driver_tips :
               \E k \in DOMAIN r.truck_assignments :
                   /\ r.truck_assignments[k].truck_id = r.driver_tips[i].truck_id
                   /\ r.truck_assignments[k].hub_id = r.driver_tips[i].hub_id
                   /\ r.truck_assignments[k].slot_id = r.driver_tips[i].slot_id
        /\ \A k \in DOMAIN r.truck_assignments :
               Cardinality({i \in DOMAIN r.driver_tips :
                               r.driver_tips[i].truck_id = r.truck_assignments[k].truck_id}) = 1
        /\ \A i \in DOMAIN r.driver_tips :
               r.driver_tips[i].tip.off_peak => r.driver_tips[i].slot_id \notin PeakSlots

\* Equality of two normalized positions (fractions compared by cross-multiplication)
SamePoint(p, q) ==
    /\ p.x[1] * q.x[2] = q.x[1] * p.x[2]
    /\ p.y[1] * q.y[2] = q.y[1] * p.y[2]

\* The truck ids DriverView can have selected: 0 at first, then any listed truck
TruckIds == 0..DemoTrucks

\* C27: for every selected truck DriverView shows the route stored in
\* artificial_map.routes at the index of that truck's entry in truck_assignments,
\* and that route ends at the map position of the truck's assigned hub; it shows
\* no route when the selected truck has no assignment; the fallback demo has one
\* route per assignment.
C27_RouteOfSelectedTruck ==
    \A r \in Responses :
        /\ \A t \in TruckIds :
               LET ta == r.truck_assignments
                   at == {k \in DOMAIN ta : ta[k].truck_id = t}
               IN  /\ at = {} => DriverRoute(r, t) = <<>>
                   /\ \A k \in at :
                          /\ k \in DOMAIN r.artificial_map.routes
                          /\ DriverRoute(r, t) = <<r.artificial_map.routes[k]>>
                          /\ \E h \in DOMAIN r.artificial_map.hubs :
                                 /\ r.artificial_map.hubs[h].hub_id = ta[k].hub_id
                                 /\ SamePoint(
                                        r.artificial_map.routes[k][Len(r.artificial_map.routes[k])],
                                        r.artificial_map.hubs[h])
        /\ respSource = "fallback" =>
               Len(r.artificial_map.routes) = Len(r.truck_assignments)

\* The deliveries of a response whose destination hub, found by its hub_id, lies in
\* zone z, in list order
DeliveriesIntoZone(r, z) ==
    SelectSeq(r.deliveries,
              LAMBDA d : \E h \in DOMAIN r.hubs :
                             r.hubs[h].hub_id = d.to_hub_id /\ r.hubs[h].zone_id = z)

\* C28: in the fallback demo there is exactly one delivery per assigned truck, the
\* delivery ids are pairwise distinct, and each delivery's to_hub_id and
\* scheduled_slot are the hub_id and slot_id of the assignment with the same
\* truck_id; for every zone BusinessView lists exactly the deliveries whose
\* destination hub lies in that zone.
C28_DeliveriesMatchAssignments ==
    \A r \in Responses :
        /\ respSource = "fallback" =>
               /\ \A k \in DOMAIN r.truck_assignments :
                      Cardinality({i \in DOMAIN r.deliveries :
                                      r.deliveries[i].truck_id =
                                          r.truck_assignments[k].truck_id}) = 1
               /\ Len(r.deliveries) = Len(r.truck_assignments)
               /\ \A i, j \in DOMAIN r.deliveries :
                      r.deliveries[i].delivery_id = r.deliveries[j].delivery_id => i = j
               /\ \A i \in DOMAIN r.deliveries :
                      \A k \in DOMAIN r.truck_assignments :
                          r.truck_assignments[k].truck_id = r.deliveries[i].truck_id =>
                              /\ r.deliveries[i].to_hub_id = r.truck_assignments[k].hub_id
                              /\ r.deliveries[i].scheduled_slot =
                                     r.truck_assignments[k].slot_id
        /\ \A z \in 0..(NumZones - 1) : DeliveriesToZone(r, z) = DeliveriesIntoZone(r, z)

\* The fallback demo is displayed: zone 3 receives the six deliveries of hub 3 and
\* zone 5, which has no hub, none
C28_Witness ==
    /\ respSource = "fallback"
    /\ Len(DeliveriesToZone(resp[1], 3)) = 6
    /\ \A i \in 1..6 : DeliveriesToZone(resp[1], 3)[i].to_hub_id = 3
    /\ DeliveriesToZone(resp[1], 5) = <<>>

\* Truck ids of a sequence of assignments
AssignedTrucks(assignments) == {assignments[i].truck_id : i \in DOMAIN assignments}

\* Truck ids of a sequence of ids
Reported(ids) == {ids[i] : i \in DOMAIN ids}

\* C18: infeasibility is a result, not an error.  While solving, the next truck
\* can always be decided (assigned, or left out and reported), so the optimizer
\* never gets stuck; when the budget is exhausted or every hub is full in every slot it
\* returns a non-optimal status and a partial assignment set that respects
\* capacity and budget, and every truck without an assignment is reported:
\* assigned + reported-unassigned = num_trucks.
C18_InfeasibilityIsAResult ==
    /\ (phase = "solving" /\ optCursor < MaxTrucks) =>
           \/ \E h \in OptHubs, s \in OptSlots :
                  /\ Feasible(optAssigned, optSpent, optBudget, h, s)
                  /\ (~optWithOpt) => s = EarliestAvailableSlot(optAssigned, h)
           \/ \A h \in OptHubs, s \in OptSlots :
                  ~Feasible(optAssigned, optSpent, optBudget, h, s)
    /\ phase = "solving" => Len(optAssigned) + Len(optUnassigned) = optCursor
    /\ respSource = "optimizer" =>
           /\ Len(resp[1].truck_assignments) < MaxTrucks => resp[1].status # "optimal"
           /\ CapacityRespected(resp[1])
           /\ AssignmentFee * Len(resp[1].truck_assignments) <= optBudget
           /\ Len(resp[1].truck_assignments) + Len(optUnassigned) = MaxTrucks
           /\ AssignedTrucks(resp[1].truck_assignments) \cup Reported(optUnassigned)
                  = 0..(MaxTrucks - 1)
           /\ AssignedTrucks(resp[1].truck_assignments) \cap Reported(optUnassigned) = {}

\* The optimizer returned with budget left and every hub full in every slot, and
\* reported the trucks it could not place
C18_Witness ==
    /\ respSource = "optimizer"
    /\ optSpent < optBudget
    /\ \A h \in OptHubs, s \in OptSlots :
           SlotLoad(resp[1].truck_assignments, h, s) = MaxCapacity
    /\ optUnassigned # <<>>
    /\ resp[1].status = "infeasible"

\* The optimizer returned after the budget ran out with room left at a hub
C18_WitnessBudget ==
    /\ respSource = "optimizer"
    /\ optSpent = optBudget
    /\ \E h \in OptHubs, s \in OptSlots :
           SlotLoad(resp[1].truck_assignments, h, s) < MaxCapacity
    /\ optUnassigned # <<>>

Manhattan(a, b) == Abs(a[1] - b[1]) + Abs(a[2] - b[2])

\* C16: on an R x C 4-connected grid without obstacles, shortest_path(origin,
\* destination) returns a path that starts at origin, ends at destination, moves
\* between adjacent cells of the grid, and whose number of hops is the Manhattan
\* distance |dr| + |dc| of the two cells.
C16_ShortestPathIsManhattan ==
    routerPc = "done" =>
        /\ routePath # <<>>
        /\ routePath[1] = routeOrigin
        /\ routePath[Len(routePath)] = routeDest
        /\ \A i \in 1..(Len(routePath) - 1) :
               /\ InGrid(routePath[i + 1], gridRows, gridCols)
               /\ Manhattan(routePath[i], routePath[i + 1]) = 1
        /\ Len(routePath) - 1 = Manhattan(routeOrigin, routeDest)

\* A path was returned between cells that differ in row and in column
C16_Witness ==
    /\ routerPc = "done"
    /\ routeOrigin[1] # routeDest[1]
    /\ routeOrigin[2] # routeDest[2]
    /\ Len(routePath) - 1 = Manhattan(routeOrigin, routeDest)
    /\ Len(routePath) >= 4

(***************************************************************************)
(* Claims about fetchDemo.                                                 *)
(***************************************************************************)
DemoFallbackResult == <<[data |-> getFallbackDemo, fromApi |-> FALSE]>>

\* C3: fetchDemo never rejects; once settled it has resolved, to the API body with
\* fromApi = TRUE exactly when the response was OK and its body parsed, and to the
\* getFallbackDemo payload with fromApi = FALSE in every other case.
C3_FetchDemoAlwaysResolves ==
    /\ demoOutcome # "rejected"
    /\ demoPc = "settled" =>
          /\ demoOutcome = "resolved"
          /\ IF DemoOkAndParsed
             THEN demoResult = <<[data |-> JsonParse(demoBody[1])[1], fromApi |-> TRUE]>>
             ELSE demoResult = DemoFallbackResult
    /\ demoPc # "settled" => demoOutcome = "pending" /\ demoResult = <<>>

\* C3 witness: an OK response whose body does not parse ends in the fallback
C3_Witness ==
    /\ demoPc = "settled"
    /\ demoRes = <<[ok |-> TRUE]>>
    /\ demoBody = <<"not_json">>
    /\ demoResult = DemoFallbackResult

\* {!fromApi && data && ( ...Showing sample data... )} (page.tsx 38)
HomeBanner(shown) == ~shown.fromApi /\ shown.data # <<>>

\* C26: in every state in which Home displays data, the fromApi it rendered is true
\* exactly when the displayed data was returned by the API, and the 'Showing sample
\* data' banner is shown exactly when the displayed data is the built-in fallback;
\* this includes the states between setData and setFromApi of a refresh that
\* switches between fallback and API data, in which Home still displays the
\* previous data and flag.
C26_BannerIffFallbackShown ==
    /\ homeShown.data # <<>> =>
           /\ homeShown.fromApi <=> homeShown.origin = "api"
           /\ HomeBanner(homeShown) <=> homeShown.origin = "fallback"
           /\ homeShown.origin = "fallback" <=> homeShown.data = <<getFallbackDemo>>
    /\ homeShown.data = <<>> => ~HomeBanner(homeShown)
    /\ loadPc # "setData" =>
           homeShown = [data |-> demoData, fromApi |-> demoFromApi, origin |-> demoDataOrigin]

\* Between the two state updates of a refresh that switches from fallback data to API
\* data: Home still shows the fallback with its banner
C26_Witness ==
    /\ loadPc = "setData"
    /\ demoDataOrigin = "api"
    /\ homeShown.origin = "fallback"
    /\ HomeBanner(homeShown)

\* C4: every call to fetchDemo eventually settles, whatever the backend does.
C4_FetchDemoEventuallySettles == (demoPc = "fetching") ~> (demoPc = "settled")

\* C6: with NEXT_PUBLIC_API_URL unset or empty, fetchDemo returns the built-in sample
\* data with fromApi = FALSE, whatever answers on the local machine.
C6_NoApiUrlMeansSampleData ==
    (apiUrlEnv = "" /\ demoPc = "settled") => demoResult = DemoFallbackResult

(***************************************************************************)
(* Claims about MapView                                                    *)
(***************************************************************************)
\* What the map is to hold after a run of the layer effect
ExpectedSources(data) ==
    {[id |-> "zones", data |-> data.zones_geojson], [id |-> "hubs", data |-> HubPoints(data)]}

ExpectedLayers(data, mode) ==
    {[id |-> "zones-fill", source |-> "zones", paint |-> FillPaint(data, mode)],
     [id |-> "zones-outline", source |-> "zones", paint |-> OutlinePaint],
     [id |-> "hubs", source |-> "hubs", paint |-> HubsPaint(data)]}

\* C24: the layer effect never asks the map to remove a source a layer still uses
\* and never adds a source or layer whose id exists; after every run, first or
\* repeated, the map holds exactly the sources zones and hubs and the layers
\* zones-fill, zones-outline and hubs, built from the latest data and layerMode.
C24_LayerEffectRebuildsLayers ==
    /\ mvErrors = {}
    /\ (/\ mvMounted = "mounted"
        /\ ~mvEffectDue
        /\ mapRef # 0
        /\ mapReady
        /\ mvData # <<>>)
       => /\ mvSources = ExpectedSources(MapData(mvData[1]))
          /\ mvLayers = ExpectedLayers(MapData(mvData[1]), layerMode)

\* C25: whatever the order of the import resolving, the map's load event and the
\* unmount, mapRef holds a map, and mapReady is true for one, only while the
\* component is mounted, and the map it holds is the loaded, unremoved map of the
\* current run of the init effect; no map is removed twice or before the cleanup
\* of its run, and every created map whose load event has fired is removed exactly
\* once after the unmount.
C25_MapRemovedExactlyOnce ==
    /\ mapRef # 0 =>
           /\ mvMounted = "mounted"
           /\ mapReady
           /\ mapRef = Len(mvRuns)
           /\ mvRuns[mapRef].map = "loaded"
           /\ mvRuns[mapRef].removes = 0
    /\ mapReady => (mapRef # 0 /\ mvMounted = "mounted")
    /\ \A k \in DOMAIN mvRuns :
           /\ mvRuns[k].removes <= 1
           /\ mvRuns[k].removes = 1 => (mvRuns[k].cancelled /\ mvRuns[k].map = "loaded")
           /\ (mvRuns[k].cancelled /\ mvRuns[k].map = "loaded") => mvRuns[k].removes = 1
           /\ mvRuns[k].map = "none" => mvRuns[k].removes = 0

\* Two runs of the init effect, both maps created, loaded and removed once
C25_Witness ==
    /\ mvMounted = "unmounted"
    /\ Len(mvRuns) = 2
    /\ \A k \in DOMAIN mvRuns : mvRuns[k].map = "loaded" /\ mvRuns[k].removes = 1

(***************************************************************************)
(* Claims about useOptimize                                                *)
(***************************************************************************)
\* C19: whenever no /optimize request is in flight and the most recently issued
\* request succeeded, data is the response of that most recently issued request.
C19_DataIsLatestResponse ==
    (hookMounted = "mounted" /\ requests = {} /\ lastOutcome = "ok") =>
        /\ optData # <<>>
        /\ optData[1].rid = nextRid - 1

\* C20: loading is true in every state in which at least one /optimize request is
\* in flight and false in every state in which none is.
C20_LoadingIffInFlight ==
    hookMounted = "mounted" => (optLoading <=> requests # {})

\* The requests a step settled
SettledBy(before, after) == IF after \subseteq before THEN before \ after ELSE {}

\* C21: while useOptimize is mounted, a failed /optimize request sets error to its
\* failure message and loading to false and leaves data unchanged; a successful
\* request sets data to its result; starting a request resets error to null; so error
\* is non-null only if a request failed after the last request was started, and it
\* is then the message of the latest such failure.
C21_FailureKeepsData ==
    /\ [](hookMounted = "mounted" =>
              optError = IF failedSinceStart = <<>>
                         THEN <<>>
                         ELSE <<failedSinceStart[1].message>>)
    /\ [][hookMounted = "mounted" =>
              /\ (failedSinceStart' # failedSinceStart /\ failedSinceStart' # <<>>) =>
                     /\ optError' = <<failedSinceStart'[1].message>>
                     /\ optLoading' = FALSE
                     /\ optData' = optData
              /\ (SettledBy(requests, requests') # {} /\ failedSinceStart' = failedSinceStart) =>
                     \A r \in SettledBy(requests, requests') :
                         optData' = <<[rid |-> r.rid, params |-> r.params]>>
              /\ nextRid' # nextRid => optError' = <<>> /\ optLoading' = TRUE]_vars

\* A request failed after an earlier one had succeeded: the earlier result is still
\* displayed next to the failure message
C21_Witness ==
    /\ hookMounted = "mounted"
    /\ optData # <<>>
    /\ optError # <<>>
    /\ lastOutcome = "failed"
    /\ optData[1].rid < nextRid - 1
    /\ ~optLoading

\* C22: runNow cancels the pending debounce timer and issues exactly one request at
\* once, carrying the params of the hook's current render (the `params` the hook
\* last returned, which is the params state once the hook has re-rendered).  A
\* cancelled timer issues nothing afterwards: when the first request since the last
\* setParams call was issued less than DEBOUNCE_MS after it (by runNow), the requests
\* issued since that call are exactly the runNow calls made since, one each, and no
\* timer is pending.  At most one debounce timer is pending in every reachable
\* state, and it is the one debounceRef holds.
C22_RunNowCancelsTimer ==
    /\ [](Cardinality(timers) <= 1)
    /\ []((hookMounted = "mounted" /\ timers # {}) => \A t \in timers : t.id = debounceRef)
    /\ []((/\ hookMounted = "mounted"
            /\ lastNext # <<>>
            /\ runsSinceSet >= 1
            /\ postsSinceSet # <<>>
            /\ postsSinceSet[1].at < DEBOUNCE_MS)
           => /\ Len(postsSinceSet) = runsSinceSet
              /\ timers = {}
              /\ debounceRef = 0)
    /\ [][(hookMounted = "mounted" /\ runsSinceSet' = runsSinceSet + 1) =>
              /\ timers' = {}
              /\ debounceRef' = 0
              /\ nextRid' = nextRid + 1
              /\ requests' = requests \cup {[rid |-> nextRid, params |-> closureParams]}
              /\ (closureParams = params) =>
                     requests' = requests \cup {[rid |-> nextRid, params |-> params]}]_vars

\* setParams, a re-render, then runNow before the 500 ms are over: one request since
\* the setParams call, carrying the new params, and no timer left
C22_Witness ==
    /\ hookMounted = "mounted"
    /\ lastNext # <<>>
    /\ runsSinceSet = 1
    /\ Len(postsSinceSet) = 1
    /\ postsSinceSet[1].at < DEBOUNCE_MS
    /\ postsSinceSet[1].params = lastNext[1]
    /\ postsSinceSet[1].params # InitialParams
    /\ timers = {}

\* C23: setParams(updates) changes only the fields present in updates.  After any
\* sequence of setParams calls the params state, the params the pending debounce
\* timer will send and the params of the debounced request once sent equal the
\* initial params with every update applied in call order, also when two calls
\* are made from the same render.
C23_SetParamsAppliesEveryUpdate ==
    (hookMounted = "mounted" /\ lastNext # <<>>) =>
        /\ params = expectedParams
        /\ \A t \in timers : t.next = expectedParams
        /\ burstClean => \A i \in DOMAIN postsSinceSet :
                              postsSinceSet[i].params = expectedParams

\* C5: parameter changes are debounced by DEBOUNCE_MS.  While the hook is
\* mounted and no runNow intervened, fewer than DEBOUNCE_MS after the last
\* setParams call no POST /optimize has been issued since that call; once the
\* debounce timer is gone exactly one POST has been issued since it, at
\* DEBOUNCE_MS after the call (to the granularity of the clock), carrying the
\* params that call produced.  A burst of calls each less than DEBOUNCE_MS after
\* the previous one therefore issues nothing until DEBOUNCE_MS after its last call.
C5_ParamChangesDebounced ==
    (hookMounted = "mounted" /\ lastNext # <<>> /\ burstClean) =>
        /\ sinceSet < DEBOUNCE_MS => postsSinceSet = <<>>
        /\ Len(postsSinceSet) <= 1
        /\ \A i \in DOMAIN postsSinceSet :
               /\ postsSinceSet[i].params = lastNext[1]
               /\ postsSinceSet[i].at >= DEBOUNCE_MS
               /\ postsSinceSet[i].at < DEBOUNCE_MS + HookTickMs
        /\ timers = {} => Len(postsSinceSet) = 1

\* A burst of two or more setParams calls whose single POST has been issued
C5_Witness ==
    /\ hookMounted = "mounted"
    /\ burstClean
    /\ burstLen >= 2
    /\ Len(postsSinceSet) = 1
    /\ postsSinceSet[1].params = lastNext[1]

=============================================================================
